---- MODULE Spec2Model ----
(***************************************************************************)
(* A model of the conversational question-answering pipeline driven by     *)
(* src/question_answering.ipynb.  The notebook builds its pipeline out of  *)
(* LangChain / Chroma objects; each operation below is the operation the   *)
(* notebook invokes at the cited line, with the semantics the invoked      *)
(* object has when the cell runs.  Texts (inputs, outputs, observations)   *)
(* are taken from small sets of the notebook's literals; calls to the      *)
(* hosted services (LLM, embeddings) are nondeterministic: they return one *)
(* of a few values or raise.                                               *)
(*                                                                         *)
(* The components are independent objects in the notebook, so each has its *)
(* own specification (SpecWindow, SpecSumBuf, SpecAgent, SpecChat,         *)
(* SpecIndex, SpecMultiQuery, SpecSplit, SpecMarkdown, SpecSynth,          *)
(* SpecSummary, SpecBuffer) over the shared variable tuple; a              *)
(* specification leaves the variables of the other components at their     *)
(* initial values.                                                         *)
(***************************************************************************)
EXTENDS Integers, Sequences, FiniteSets, TLC

VARIABLES
    \* ConversationBufferWindowMemory (cell 61)
    wK,            \* the k the memory was constructed with
    wMessages,     \* memory.chat_memory.messages
    wLoaded,       \* result of the last load_memory_variables({}) since the last save
    wPairs,        \* history: the (input, output) pairs passed to save_context, in order
    \* ConversationSummaryBufferMemory (cell 65)
    sbLimit,       \* max_token_limit
    sbTokens,      \* the token estimator: message -> number of tokens
    sbMessages,    \* memory.chat_memory.messages (the trailing buffer)
    sbSummary,     \* memory.moving_summary_buffer, as the messages folded into it
    sbAppended,    \* history: every message save_context appended, in order
    sbDropped,     \* history: messages popped by a save_context whose summarize call raised
    sbStatus,      \* outcome of the last save_context: "none", "ok", "error"
    sbBefore,      \* history: the buffer and the summary when the last save_context began
    sbLoaded,      \* <<>>, or <<what load_memory_variables returned since the last save>>
    \* create_conversational_retrieval_agent / AgentExecutor (cells 76-80)
    agMaxIter,     \* AgentExecutor.max_iterations
    agTokenLimit,  \* AgentTokenBufferMemory.max_token_limit
    agTokens,      \* the token estimator of the agent memory: message type -> tokens
    agPolicy,      \* what the LLM does when asked to plan: "direct", "tool", "any"
    agState,       \* position of the executor in the current turn
    agInput,       \* the turn's {"input": ...}
    agIterations,  \* the local variable iterations of AgentExecutor._call
    agPending,     \* the AgentAction the last plan call returned
    agSteps,       \* intermediate_steps: <<tool, observation>> pairs
    agOutput,      \* the AgentFinish passed to _return: output text and how it arose
    agMemory,      \* memory.chat_memory.messages of the executor's memory
    agDecisions,   \* history: plan calls (Deciding steps) made in the current turn
    agToolRuns,    \* history: tool runs completed in the current turn
    agMemAtStart,  \* history: agMemory when the current turn started
    agTurns,       \* history: turns started
    \* ConversationalRetrievalChain over ConversationSummaryMemory (cells 71-74)
    qaState,       \* position of the chain in the current turn
    qaQuestion,    \* the turn's question
    qaAnswer,      \* the answer the combine-documents chain produced
    qaError,       \* the kind of the exception that reached the caller, "" when none
    qaRaised,      \* history: the exception a gateway raised in this turn, and where
    cmMessages,    \* memory.chat_memory.messages
    cmSummary,     \* memory.buffer (the summary), as the messages folded into it
    qaAtStart,     \* history: messages, summary and index when the turn started
    qaTurns,       \* history: turns started
    \* The vector store (cells 25, 29)
    ixDim,         \* the dimension the collection has been given, NoDim before
    ixEntries,     \* the stored records, in insertion order
    ixAttempt,     \* the argument of the last insert
    ixResult       \* the outcome of the last insert: "none", "ok", "InvalidDimension"

VARIABLES
    \* MultiQueryRetriever over the SVMRetriever (cell 33)
    mqK,           \* SVMRetriever.k: how many documents one retrieval returns
    mqScores,      \* per generated query, the similarity the SVM gives each chunk
    mqResults,     \* per generated query retrieved so far, the documents returned
    mqMerged,      \* the list get_relevant_documents returns
    mqState,       \* "Idle", "Retrieving", "Done", "Failed"
    \* RecursiveCharacterTextSplitter (cells 16, 22)
    spText,        \* page_content of the document to split
    spSize,        \* chunk_size
    spOverlap,     \* chunk_overlap
    spState,       \* "New", "Ready", "ValueError", "Done"
    spChunks,      \* the page_content of the documents split_documents returns
    \* MarkdownHeaderTextSplitter, then RecursiveCharacterTextSplitter (cell 22)
    mdLines,       \* the lines of data[0].page_content
    mdSize,        \* chunk_size of the character splitter
    mdOverlap,     \* chunk_overlap of the character splitter
    mdState,       \* "New", "Sections", "Done"
    mdSections,    \* section_splits
    mdChunks,      \* all_splits
    \* RetrievalQA with a stuff or a refine combine-documents chain (cells 35, 45)
    syType,        \* chain_type: "stuff" or "refine"
    syBudget,      \* the context size of the model behind the LLM gateway
    syDocs,        \* the documents the retriever returned
    syCalls,       \* history: the prompts handed to the LLM, in order
    syAnswers,     \* history: the answers the LLM returned, in order
    syState,       \* "Idle", "Combining", "Done", "Failed"
    syResult,      \* output["result"]
    syError,       \* the exception that ended the call, "" when none
    syReturnSources, \* return_source_documents of the chain
    sySources,     \* <<>>, or <<output["source_documents"]>> when the output has the key
    \* ConversationSummaryMemory used directly (cell 63)
    smMessages,    \* memory.chat_memory.messages
    smSummary,     \* memory.buffer (the summary), as the messages folded into it
    smCalls,       \* history: the arguments of every predict_new_summary call
    smPairs,       \* history: the pairs passed to save_context and whether it returned
    smLoaded,      \* result of the last load_memory_variables({}) since the last save
    smStatus,      \* outcome of the last save_context: "none", "ok", "error"
    \* ConversationBufferMemory (cells 57, 59, 67)
    bfReturnMessages, \* the return_messages argument
    bfMessages,    \* memory.chat_memory.messages
    bfTurns,       \* history: the turns handed to the memory, in order
    bfLoaded       \* the results of load_memory_variables({}) since the last change (at most one)

windowVars == <<wK, wMessages, wLoaded, wPairs>>
sumBufVars ==
    <<sbLimit, sbTokens, sbMessages, sbSummary, sbAppended, sbDropped, sbStatus,
      sbBefore, sbLoaded>>
agentVars == <<agMaxIter, agTokenLimit, agTokens, agPolicy, agState, agInput,
               agIterations, agPending, agSteps, agOutput, agMemory, agDecisions,
               agToolRuns, agMemAtStart, agTurns>>
chatVars == <<qaState, qaQuestion, qaAnswer, qaError, qaRaised, cmMessages, cmSummary,
              qaAtStart, qaTurns>>
indexVars == <<ixDim, ixEntries, ixAttempt, ixResult>>
multiQueryVars == <<mqK, mqScores, mqResults, mqMerged, mqState>>
\* The retrieval, segmentation and synthesis objects of the notebook's other cells.
splitVars == <<spText, spSize, spOverlap, spState, spChunks>>
markdownVars == <<mdLines, mdSize, mdOverlap, mdState, mdSections, mdChunks>>
synthVars ==
    <<syType, syBudget, syDocs, syCalls, syAnswers, syState, syResult, syError,
      syReturnSources, sySources>>
summaryVars == <<smMessages, smSummary, smCalls, smPairs, smLoaded, smStatus>>
bufferVars == <<bfReturnMessages, bfMessages, bfTurns, bfLoaded>>
stageVars == <<multiQueryVars, splitVars, markdownVars, synthVars, summaryVars, bufferVars>>
vars == <<windowVars, sumBufVars, agentVars, chatVars, indexVars, stageVars>>

----------------------------------------------------------------------------
\* Bounds of the model.
MaxAppends == 3      \* save_context calls per memory object
MaxK == 2            \* largest window size k
MaxTok == 2          \* largest token estimate of one message
MaxLimit == 3        \* largest max_token_limit
MaxIter == 2         \* largest max_iterations of the agent executor
MaxTurns == 2        \* turns per agent executor
MaxAgentLimit == 4   \* largest max_token_limit of the agent memory
MaxDim == 2          \* largest embedding dimension
MaxInserts == 3      \* insert calls per vector store
MaxVariants == 2     \* queries the LLM generates for one question
MaxScore == 1        \* largest similarity of a chunk to a query
MaxRetrieveK == 2    \* largest k of the SVM retriever
MaxLen == 5          \* longest document text, in characters
MaxChunkSize == 3    \* largest chunk_size
MaxOverlap == 3      \* largest chunk_overlap
MaxLines == 4        \* most lines of a document with headers
MaxSectionSize == 7  \* largest chunk_size applied to the sections
MaxSectionOverlap == 1  \* largest chunk_overlap applied to the sections
MaxDocs == 3         \* most documents one retrieval returns to a chain
MaxBudget == 6       \* largest context size of the model
MaxBufferTurns == 4  \* turns handed to one buffer memory

\* The texts of the notebook's memory cells.
UserInputs == {"hi", "not much you"}
AiOutputs == {"whats up", "not much"}

Max(a, b) == IF a >= b THEN a ELSE b
Min(a, b) == IF a <= b THEN a ELSE b

\* langchain.schema messages: HumanMessage(content) / AIMessage(content).
HumanMessage(c) == [type |-> "human", content |-> c]
AIMessage(c) == [type |-> "ai", content |-> c]

\* Python's list[-n:] for n > 0: the last n elements, the whole list when it is shorter.
LastN(s, n) == SubSeq(s, Max(1, Len(s) - n + 1), Len(s))

\* A save_context that stores the assistant turn before the user turn.
ChatSaveContextAiFirst(messages, input, output) ==
    messages \o <<AIMessage(output), HumanMessage(input)>>

\* BaseChatMemory.save_context: add_user_message(input) then add_ai_message(output).
ChatSaveContext(messages, input, output) ==
    messages \o <<HumanMessage(input), AIMessage(output)>>

----------------------------------------------------------------------------
\* ConversationBufferWindowMemory(k): cell 61.

NotLoaded == <<"not loaded">>

\* A window that keeps k messages instead of k pairs (2k messages).
WindowBufferHalf(messages, k) == IF k > 0 THEN LastN(messages, k) ELSE <<>>

\* ConversationBufferWindowMemory.buffer:
\*   self.chat_memory.messages[-self.k * 2:] if self.k > 0 else []
WindowBuffer(messages, k) == IF k > 0 THEN LastN(messages, k * 2) ELSE <<>>

WindowInit ==
    /\ wK \in 0..MaxK
    /\ wMessages = <<>>
    /\ wLoaded = NotLoaded
    /\ wPairs = <<>>

\* memory.save_context({"input": i}, {"output": o})
WindowSaveContext ==
    /\ Len(wPairs) < MaxAppends
    /\ \E i \in UserInputs, o \in AiOutputs :
          /\ wMessages' = ChatSaveContext(wMessages, i, o)
          /\ wPairs' = Append(wPairs, <<i, o>>)
    /\ wLoaded' = NotLoaded
    /\ UNCHANGED wK

\* memory.load_memory_variables({})
WindowLoad ==
    /\ wLoaded = NotLoaded
    /\ wLoaded' = WindowBuffer(wMessages, wK)
    /\ UNCHANGED <<wK, wMessages, wPairs>>

----------------------------------------------------------------------------
\* ConversationSummaryBufferMemory(llm=llm, max_token_limit=...): cell 65.

\* The messages save_context can append: HumanMessage(input), AIMessage(output).
SavedMessages ==
    {HumanMessage(i) : i \in UserInputs} \cup {AIMessage(o) : o \in AiOutputs}

\* llm.get_num_tokens_from_messages(buffer) of the completion model of cell 63:
\* the sum over the messages of the token count of each message's text.
RECURSIVE NumTokens(_, _)
NumTokens(tokens, buffer) ==
    IF buffer = <<>> THEN 0
    ELSE tokens[buffer[1]] + NumTokens(tokens, Tail(buffer))

\* A prune whose "while" is an "if": at most one message is popped.
PruneOnce(tokens, buffer, limit) ==
    IF NumTokens(tokens, buffer) > limit /\ buffer # <<>>
    THEN [pruned |-> <<buffer[1]>>, buffer |-> Tail(buffer)]
    ELSE [pruned |-> <<>>, buffer |-> buffer]

\* The loop of ConversationSummaryBufferMemory.prune:
\*   while curr_buffer_length > self.max_token_limit:
\*       pruned_memory.append(buffer.pop(0))
\*       curr_buffer_length = self.llm.get_num_tokens_from_messages(buffer)
\* (buffer.pop(0) on an empty list raises IndexError: "raised" is then TRUE.)
RECURSIVE PruneLoop(_, _, _, _)
PruneLoop(tokens, buffer, limit, pruned) ==
    IF NumTokens(tokens, buffer) > limit
    THEN IF buffer = <<>>
         THEN [pruned |-> pruned, buffer |-> buffer, raised |-> TRUE]
         ELSE PruneLoop(tokens, Tail(buffer), limit, Append(pruned, buffer[1]))
    ELSE [pruned |-> pruned, buffer |-> buffer, raised |-> FALSE]

\* A prune whose loop test is ">=": it also pops when the buffer is exactly at
\* the limit.
RECURSIVE PruneEagerLoop(_, _, _, _)
PruneEagerLoop(tokens, buffer, limit, pruned) ==
    IF NumTokens(tokens, buffer) >= limit /\ buffer # <<>>
    THEN PruneEagerLoop(tokens, Tail(buffer), limit, Append(pruned, buffer[1]))
    ELSE [pruned |-> pruned, buffer |-> buffer]

PruneEager(tokens, buffer, limit) == PruneEagerLoop(tokens, buffer, limit, <<>>)

\* prune(): the messages popped off the front, oldest first, and what stays.
Prune(tokens, buffer, limit) ==
    LET r == PruneLoop(tokens, buffer, limit, <<>>)
    IN [pruned |-> r.pruned, buffer |-> r.buffer]

\* predict_new_summary(pruned_memory, moving_summary_buffer): the LLM's new
\* summary, represented by the messages it has been asked to fold in, in order.
PredictNewSummary(pruned, summary) == summary \o pruned

\* load_memory_variables({}): the summary (when not empty) followed by the buffer.
SumBufLoad(summary, buffer) ==
    (IF summary = <<>> THEN <<>> ELSE <<[type |-> "system", content |-> summary]>>)
        \o buffer

SumBufInit ==
    /\ sbLimit \in 0..MaxLimit
    /\ sbTokens \in [SavedMessages -> 1..MaxTok]
    /\ sbMessages = <<>>
    /\ sbSummary = <<>>
    /\ sbAppended = <<>>
    /\ sbDropped = <<>>
    /\ sbStatus = "none"
    /\ sbBefore = [messages |-> <<>>, summary |-> <<>>]
    /\ sbLoaded = <<>>

SumBufIdle ==
    /\ sbLimit = 0
    /\ sbTokens = <<>>
    /\ sbMessages = <<>>
    /\ sbSummary = <<>>
    /\ sbAppended = <<>>
    /\ sbDropped = <<>>
    /\ sbStatus = "none"
    /\ sbBefore = [messages |-> <<>>, summary |-> <<>>]
    /\ sbLoaded = <<>>

\* memory.save_context({"input": i}, {"output": o}) with every LLM call succeeding:
\* super().save_context, then prune(), which summarizes what it popped.
SumBufSaveContext ==
    /\ Len(sbAppended) < 2 * MaxAppends
    /\ \E i \in UserInputs, o \in AiOutputs :
          LET added == ChatSaveContext(sbMessages, i, o)
              p == Prune(sbTokens, added, sbLimit)
          IN /\ sbAppended' = ChatSaveContext(sbAppended, i, o)
             /\ sbMessages' = p.buffer
             /\ sbSummary' = IF p.pruned = <<>> THEN sbSummary
                             ELSE PredictNewSummary(p.pruned, sbSummary)
    /\ sbStatus' = "ok"
    /\ sbBefore' = [messages |-> sbMessages, summary |-> sbSummary]
    /\ sbLoaded' = <<>>
    /\ UNCHANGED <<sbLimit, sbTokens, sbDropped>>

\* The same call when the LLM call of predict_new_summary raises: the pops have
\* already been applied to chat_memory.messages, the summary is not assigned.
SumBufSaveContextFails ==
    /\ Len(sbAppended) < 2 * MaxAppends
    /\ \E i \in UserInputs, o \in AiOutputs :
          LET added == ChatSaveContext(sbMessages, i, o)
              p == Prune(sbTokens, added, sbLimit)
          IN /\ p.pruned # <<>>
             /\ sbAppended' = ChatSaveContext(sbAppended, i, o)
             /\ sbMessages' = p.buffer
             /\ sbDropped' = sbDropped \o p.pruned
    /\ sbStatus' = "error"
    /\ sbBefore' = [messages |-> sbMessages, summary |-> sbSummary]
    /\ sbLoaded' = <<>>
    /\ UNCHANGED <<sbLimit, sbTokens, sbSummary>>

\* memory.load_memory_variables({}) of cell 65.
SumBufLoadMemory ==
    /\ sbLoaded = <<>>
    /\ sbLoaded' = <<SumBufLoad(sbSummary, sbMessages)>>
    /\ UNCHANGED <<sbLimit, sbTokens, sbMessages, sbSummary, sbAppended, sbDropped,
                   sbStatus, sbBefore>>

----------------------------------------------------------------------------
\* The agent of cells 76-80: create_retriever_tool, then
\* create_conversational_retrieval_agent(llm, tools), an AgentExecutor over an
\* OpenAIFunctionsAgent with an AgentTokenBufferMemory, called once per turn.

AgentInputs == {"hi, im bob", "whats my name?"}
AgentAnswers == {"Hello Bob!"}
ToolName == "search_bigfoot"
ToolNames == {ToolName, "unknown_tool"}
Documents == "documents regarding Bigfoot"
StoppedOutput == "Agent stopped due to iteration limit or time limit."
AgentMessageTypes == {"human", "ai", "function_call", "function"}

\* What the LLM can return from a plan call: invoke_tool(name) / final_answer(text),
\* or the call raises.
LlmActions(policy) ==
    CASE policy = "direct" -> {[kind |-> "final_answer", text |-> a] : a \in AgentAnswers}
      [] policy = "tool" -> {[kind |-> "invoke_tool", tool |-> ToolName]}
      [] OTHER -> {[kind |-> "final_answer", text |-> a] : a \in AgentAnswers}
                    \cup {[kind |-> "invoke_tool", tool |-> t] : t \in ToolNames}
                    \cup {[kind |-> "raise"]}

\* A loop test that lets one iteration too many through.
ShouldContinueOffByOne(iterations, maxIter) == iterations <= maxIter

\* A loop test with the comparison the wrong way round.
ShouldContinueInverted(iterations, maxIter) == iterations >= maxIter

\* AgentExecutor._should_continue (max_execution_time is None):
\*   not (max_iterations is not None and iterations >= max_iterations)
ShouldContinue(iterations, maxIter) == iterations < maxIter

\* What running the named tool gives: the retriever tool's documents, or the
\* InvalidTool message for a name that is not in the catalog.
Observation(tool) ==
    IF tool = ToolName THEN Documents ELSE "unknown_tool is not a valid tool"

\* format_to_openai_function_messages(intermediate_steps): per step, the AI
\* message carrying the function call, then the FunctionMessage of its observation.
RECURSIVE StepMessages(_)
StepMessages(steps) ==
    IF steps = <<>> THEN <<>>
    ELSE <<[type |-> "function_call", content |-> steps[1][1]],
           [type |-> "function", content |-> steps[1][2]]>> \o StepMessages(Tail(steps))

\* The token estimate of the agent memory's buffer: the sum of its messages' estimates.
RECURSIVE AgentNumTokens(_, _)
AgentNumTokens(tokens, buffer) ==
    IF buffer = <<>> THEN 0
    ELSE tokens[buffer[1].type] + AgentNumTokens(tokens, Tail(buffer))

\* The pruning loop of AgentTokenBufferMemory.save_context:
\*   while curr_buffer_length > self.max_token_limit: buffer.pop(0)
RECURSIVE AgentPrune(_, _, _)
AgentPrune(tokens, buffer, limit) ==
    IF AgentNumTokens(tokens, buffer) > limit /\ buffer # <<>>
    THEN AgentPrune(tokens, Tail(buffer), limit)
    ELSE buffer

\* A save_context that stores only the input and the output of the turn.
AgentWrittenPairOnly(input, steps, output) ==
    <<HumanMessage(input), AIMessage(output)>>

\* What AgentTokenBufferMemory.save_context adds to chat_memory: the input, the
\* messages of the intermediate steps, the output.
AgentWritten(input, steps, output) ==
    <<HumanMessage(input)>> \o StepMessages(steps) \o <<AIMessage(output)>>

\* The token estimators tried for the agent memory: every message one token,
\* or a tool observation (the retrieved documents) two.
AgentEstimators ==
    {[t \in AgentMessageTypes |-> 1],
     [t \in AgentMessageTypes |-> IF t = "function" THEN 2 ELSE 1]}

AgentInit ==
    /\ agMaxIter \in 1..MaxIter
    /\ agTokenLimit \in 1..MaxAgentLimit
    /\ agTokens \in AgentEstimators
    /\ agPolicy \in {"direct", "tool", "any"}
    /\ agState = "Idle"
    /\ agInput = ""
    /\ agIterations = 0
    /\ agPending = ""
    /\ agSteps = <<>>
    /\ agOutput = [text |-> "", by |-> "none"]
    /\ agMemory = <<>>
    /\ agDecisions = 0
    /\ agToolRuns = 0
    /\ agMemAtStart = <<>>
    /\ agTurns = 0

AgentIdle ==
    /\ agMaxIter = 0
    /\ agTokenLimit = 0
    /\ agTokens = <<>>
    /\ agPolicy = "direct"
    /\ agState = "Idle"
    /\ agInput = ""
    /\ agIterations = 0
    /\ agPending = ""
    /\ agSteps = <<>>
    /\ agOutput = [text |-> "", by |-> "none"]
    /\ agMemory = <<>>
    /\ agDecisions = 0
    /\ agToolRuns = 0
    /\ agMemAtStart = <<>>
    /\ agTurns = 0

agentConfig == <<agMaxIter, agTokenLimit, agTokens, agPolicy>>

\* agent_executor({"input": i}): Chain.__call__ prepares the inputs (loads the
\* memory) and enters AgentExecutor._call with iterations = 0 and no steps.
AgentStartTurn ==
    /\ agState \in {"Idle", "Done", "Failed"}
    /\ agTurns < MaxTurns
    /\ \E i \in AgentInputs : agInput' = i
    /\ agState' = "Deciding"
    /\ agIterations' = 0
    /\ agPending' = ""
    /\ agSteps' = <<>>
    /\ agOutput' = [text |-> "", by |-> "none"]
    /\ agDecisions' = 0
    /\ agToolRuns' = 0
    /\ agMemAtStart' = agMemory
    /\ agTurns' = agTurns + 1
    /\ UNCHANGED <<agentConfig, agMemory>>

\* One pass of the while loop up to the plan call: the LLM emits one Agent Action.
AgentDecide ==
    /\ agState = "Deciding"
    /\ ShouldContinue(agIterations, agMaxIter)
    /\ agDecisions' = agDecisions + 1
    /\ \E a \in LlmActions(agPolicy) :
          \/ /\ a.kind = "final_answer"
             /\ agState' = "Answering"
             /\ agOutput' = [text |-> a.text, by |-> "final_answer"]
             /\ UNCHANGED agPending
          \/ /\ a.kind = "invoke_tool"
             /\ agState' = "ToolInvocation"
             /\ agPending' = a.tool
             /\ UNCHANGED agOutput
          \/ /\ a.kind = "raise"
             /\ agState' = "Failed"
             /\ UNCHANGED <<agPending, agOutput>>
    /\ UNCHANGED <<agentConfig, agInput, agIterations, agSteps, agMemory, agToolRuns,
                   agMemAtStart, agTurns>>

\* A step that records no observation for a tool name outside the catalog.
ExtendStepsSkipsInvalid(steps, tool) ==
    IF tool = ToolName THEN Append(steps, <<tool, Observation(tool)>>) ELSE steps

\* intermediate_steps.extend(next_step_output): one <<action, observation>> pair
\* per tool run, also for InvalidTool.
ExtendSteps(steps, tool) == Append(steps, <<tool, Observation(tool)>>)

\* The rest of the pass: the tool runs, its observation joins intermediate_steps,
\* iterations += 1.
AgentToolRun ==
    /\ agState = "ToolInvocation"
    /\ agSteps' = ExtendSteps(agSteps, agPending)
    /\ agIterations' = agIterations + 1
    /\ agToolRuns' = agToolRuns + 1
    /\ agState' = "Deciding"
    /\ UNCHANGED <<agentConfig, agInput, agPending, agOutput, agMemory, agDecisions,
                   agMemAtStart, agTurns>>

\* The retriever behind the tool raises (its embedding call fails): the error
\* leaves _call.
AgentToolRaises ==
    /\ agState = "ToolInvocation"
    /\ agPending = ToolName
    /\ agState' = "Failed"
    /\ UNCHANGED <<agentConfig, agInput, agIterations, agPending, agSteps, agOutput,
                   agMemory, agDecisions, agToolRuns, agMemAtStart, agTurns>>

\* The while condition is false: return_stopped_response("force", ...) builds
\* the AgentFinish that _return is given.
AgentLimitStop ==
    /\ agState = "Deciding"
    /\ ~ShouldContinue(agIterations, agMaxIter)
    /\ agState' = "Answering"
    /\ agOutput' = [text |-> StoppedOutput, by |-> "limit"]
    /\ UNCHANGED <<agentConfig, agInput, agIterations, agPending, agSteps, agMemory,
                   agDecisions, agToolRuns, agMemAtStart, agTurns>>

\* _return, then Chain.prep_outputs: memory.save_context(inputs, outputs), which
\* adds the turn's messages and prunes the buffer to the token limit.
AgentReturn ==
    /\ agState = "Answering"
    /\ agMemory' = AgentPrune(agTokens,
                              agMemory \o AgentWritten(agInput, agSteps, agOutput.text),
                              agTokenLimit)
    /\ agState' = "Done"
    /\ UNCHANGED <<agentConfig, agInput, agIterations, agPending, agSteps, agOutput,
                   agDecisions, agToolRuns, agMemAtStart, agTurns>>

----------------------------------------------------------------------------
\* The chat-retrieval chain of cells 71-74:
\*   memory = ConversationSummaryMemory(llm=llm, memory_key="chat_history", ...)
\*   qa = ConversationalRetrievalChain.from_llm(llm, retriever=svm_retriever, memory=memory)
\* One call qa(question) loads the memory, condenses the question with the chat
\* history (LLM), retrieves (embedding call), answers (LLM), and then saves the
\* turn to the memory, which summarizes it (LLM).

Questions == {"What is Bigfoot?", "Give me a description of one of the sightings. What happened?"}
Answers == {"Bigfoot is an ape-like creature.", "I don't know."}
NoDim == 0

\* ConversationSummaryMemory.load_memory_variables: the summary only.
SummaryLoad(summary) == summary

NoRaise == [kind |-> "", at |-> ""]

ChatInit ==
    /\ qaState = "Idle"
    /\ qaQuestion = ""
    /\ qaAnswer = ""
    /\ qaError = ""
    /\ qaRaised = NoRaise
    /\ cmMessages = <<>>
    /\ cmSummary = <<>>
    /\ qaAtStart = [messages |-> <<>>, summary |-> <<>>, index |-> <<>>]
    /\ qaTurns = 0

\* qa(question): Chain.__call__ -> prep_inputs, which loads the memory.
QaStartTurn ==
    /\ qaState \in {"Idle", "Done", "Failed"}
    /\ qaTurns < MaxTurns
    /\ \E q \in Questions : qaQuestion' = q
    /\ qaState' = "Condensing"
    /\ qaAnswer' = ""
    /\ qaError' = ""
    /\ qaRaised' = NoRaise
    /\ qaAtStart' = [messages |-> cmMessages, summary |-> cmSummary, index |-> ixEntries]
    /\ qaTurns' = qaTurns + 1
    /\ UNCHANGED <<cmMessages, cmSummary, indexVars>>

\* question_generator.run(question, chat_history): an LLM call.
QaCondense ==
    /\ qaState = "Condensing"
    /\ \/ qaState' = "Retrieving" /\ UNCHANGED <<qaError, qaRaised>>
       \/ /\ qaState' = "Failed"
          /\ qaRaised' = [kind |-> "GenerationError", at |-> "question_generator"]
          /\ qaError' = "GenerationError"
    /\ UNCHANGED <<qaQuestion, qaAnswer, cmMessages, cmSummary, qaAtStart, qaTurns,
                   indexVars>>

\* retriever.get_relevant_documents(question): embeds the question and ranks
\* the stored chunks; reads the index only.
QaRetrieve ==
    /\ qaState = "Retrieving"
    /\ \/ qaState' = "Synthesizing" /\ UNCHANGED <<qaError, qaRaised>>
       \/ /\ qaState' = "Failed"
          /\ qaRaised' = [kind |-> "EmbeddingError", at |-> "retriever"]
          /\ qaError' = "EmbeddingError"
    /\ UNCHANGED <<qaQuestion, qaAnswer, cmMessages, cmSummary, qaAtStart, qaTurns,
                   indexVars>>

\* combine_docs_chain.run(input_documents, question): the answering LLM call.
QaSynthesize ==
    /\ qaState = "Synthesizing"
    /\ \/ /\ qaState' = "Saving"
          /\ \E a \in Answers : qaAnswer' = a
          /\ UNCHANGED <<qaError, qaRaised>>
       \/ /\ qaState' = "Failed"
          /\ qaRaised' = [kind |-> "GenerationError", at |-> "combine_docs_chain"]
          /\ qaError' = "GenerationError"
          /\ UNCHANGED qaAnswer
    /\ UNCHANGED <<qaQuestion, cmMessages, cmSummary, qaAtStart, qaTurns, indexVars>>

\* Chain.prep_outputs -> ConversationSummaryMemory.save_context:
\*   super().save_context(inputs, outputs)
\*   self.buffer = self.predict_new_summary(self.chat_memory.messages[-2:], self.buffer)
QaSave ==
    /\ qaState = "Saving"
    /\ LET saved == ChatSaveContext(cmMessages, qaQuestion, qaAnswer)
       IN /\ cmMessages' = saved
          /\ cmSummary' = PredictNewSummary(LastN(saved, 2), cmSummary)
    /\ qaState' = "Done"
    /\ UNCHANGED <<qaQuestion, qaAnswer, qaError, qaRaised, qaAtStart, qaTurns, indexVars>>

\* The same when the LLM call of predict_new_summary raises: the two messages
\* are already in chat_memory, self.buffer is not assigned.  The exception
\* leaves the memory's LLM chain and then prep_outputs, which catches nothing.
QaSaveFails ==
    /\ qaState = "Saving"
    /\ cmMessages' = ChatSaveContext(cmMessages, qaQuestion, qaAnswer)
    /\ qaState' = "Failed"
    /\ qaRaised' = [kind |-> "GenerationError", at |-> "save_context"]
    /\ qaError' = "GenerationError"
    /\ UNCHANGED <<qaQuestion, qaAnswer, cmSummary, qaAtStart, qaTurns, indexVars>>

ChatIdle == ChatInit

----------------------------------------------------------------------------
\* The vector store of cell 25, Chroma.from_documents(documents, embedding),
\* which adds one record per chunk: its embedding and the chunk.

Vectors == UNION {[1..d -> {0, 1}] : d \in 1..MaxDim}
ChunkIds == {"c1", "c2"}

\* An index that accepts every vector.
DimensionOkAlways(dim, vector) == TRUE

\* The collection's dimension check on add: the first vector sets the
\* dimension, a later vector must have it.
DimensionOk(dim, vector) == dim = NoDim \/ Len(vector) = dim

IndexInit ==
    /\ ixDim = NoDim
    /\ ixEntries = <<>>
    /\ ixAttempt = <<>>
    /\ ixResult = "none"

\* The index the retrieval chain runs against: filled, and not written by a turn.
IndexFilled ==
    /\ ixDim = 1
    /\ ixEntries = <<[chunk |-> "c1", vector |-> <<0>>], [chunk |-> "c2", vector |-> <<1>>]>>
    /\ ixAttempt = <<>>
    /\ ixResult = "none"

\* insert(chunk, vector): the record is added at the end, or the add raises
\* and stores nothing.
IndexInsert ==
    /\ Len(ixEntries) < MaxInserts
    /\ \E c \in ChunkIds, v \in Vectors :
          /\ ixAttempt' = v
          /\ IF DimensionOk(ixDim, v)
             THEN /\ ixEntries' = Append(ixEntries, [chunk |-> c, vector |-> v])
                  /\ ixDim' = Len(v)
                  /\ ixResult' = "ok"
             ELSE /\ ixResult' = "InvalidDimension"
                  /\ UNCHANGED <<ixDim, ixEntries>>

----------------------------------------------------------------------------
\* MultiQueryRetriever.from_llm(retriever=svm_retriever, llm=...) and
\* retriever_from_llm.get_relevant_documents(query=question) (cell 33).

MqChunks == {"c1", "c2", "c3"}

Range(s) == {s[i] : i \in 1..Len(s)}

\* All orderings of a finite set.
RECURSIVE Perms(_)
Perms(S) ==
    IF S = {} THEN {<<>>}
    ELSE UNION {{<<x>> \o p : p \in Perms(S \ {x})} : x \in S}

\* SVMRetriever.get_relevant_documents: the chunks sorted by decreasing
\* similarity (np.argsort, which orders equal similarities either way), cut to k.
Rankings(score, k) ==
    {SubSeq(p, 1, Min(k, Len(p))) :
        p \in {q \in Perms(DOMAIN score) :
                 \A i \in 1..(Len(q) - 1) : score[q[i]] >= score[q[i + 1]]}}

\* MultiQueryRetriever.retrieve_documents: documents.extend(docs) per query.
RECURSIVE Flatten(_)
Flatten(ss) == IF ss = <<>> THEN <<>> ELSE Head(ss) \o Flatten(Tail(ss))

\* A union that keeps every occurrence.
UniqueUnionAll(documents) == documents

\* MultiQueryRetriever.unique_union: one document per distinct content, in the
\* order of first occurrence.
RECURSIVE UniqueUnion(_)
UniqueUnion(documents) ==
    IF documents = <<>> THEN <<>>
    ELSE LET rest == UniqueUnion(SubSeq(documents, 1, Len(documents) - 1))
             d == documents[Len(documents)]
         IN  IF d \in Range(rest) THEN rest ELSE Append(rest, d)

MultiQueryIdle ==
    /\ mqK = 0
    /\ mqScores = <<>>
    /\ mqResults = <<>>
    /\ mqMerged = <<>>
    /\ mqState = "Idle"

MultiQueryInit ==
    /\ mqK \in 1..MaxRetrieveK
    /\ mqScores = <<>>
    /\ mqResults = <<>>
    /\ mqMerged = <<>>
    /\ mqState = "Idle"

\* generate_queries: the LLM chain returns the lines of its answer, one query
\* per line; each query is represented by the similarities it gives the chunks.
MqGenerateQueries ==
    /\ mqState = "Idle"
    /\ \E n \in 1..MaxVariants :
         \E sc \in [1..n -> [MqChunks -> 0..MaxScore]] :
            mqScores' = sc
    /\ mqState' = "Retrieving"
    /\ UNCHANGED <<mqK, mqResults, mqMerged>>

\* generate_queries when the LLM call raises.
MqGenerateRaises ==
    /\ mqState = "Idle"
    /\ mqState' = "Failed"
    /\ UNCHANGED <<mqK, mqScores, mqResults, mqMerged>>

\* retrieve_documents, one generated query at a time in order; after the last
\* one get_relevant_documents returns unique_union(documents).
MqRetrieve ==
    /\ mqState = "Retrieving"
    /\ Len(mqResults) < Len(mqScores)
    /\ \E r \in Rankings(mqScores[Len(mqResults) + 1], mqK) :
         LET results == Append(mqResults, r)
         IN  /\ mqResults' = results
             /\ IF Len(results) = Len(mqScores)
                  THEN /\ mqMerged' = UniqueUnion(Flatten(results))
                       /\ mqState' = "Done"
                  ELSE UNCHANGED <<mqMerged, mqState>>
    /\ UNCHANGED <<mqK, mqScores>>

\* retrieve_documents when the embedding call of a retrieval raises.
MqRetrieveRaises ==
    /\ mqState = "Retrieving"
    /\ Len(mqResults) < Len(mqScores)
    /\ mqState' = "Failed"
    /\ UNCHANGED <<mqK, mqScores, mqResults, mqMerged>>

----------------------------------------------------------------------------
\* RecursiveCharacterTextSplitter(chunk_size, chunk_overlap) and
\* split_documents (cells 16 and 22).  A text is a sequence of characters.

Chars == {"a", "b", " ", "\n"}
Whitespace == {" ", "\n"}
Texts == UNION {[1..n -> Chars] : n \in 0..MaxLen}

\* RecursiveCharacterTextSplitter's default separators: "\n\n", "\n", " ", "".
Separators == << <<"\n", "\n">>, <<"\n">>, <<" ">>, <<>> >>

\* A configuration check that also rejects an overlap equal to the chunk size.
ConfigOkStrict(size, overlap) == ~(overlap >= size)

\* TextSplitter.__init__: raises ValueError when chunk_overlap > chunk_size.
ConfigOk(size, overlap) == ~(overlap > size)

MatchesAt(text, i, sep) ==
    /\ i + Len(sep) - 1 <= Len(text)
    /\ SubSeq(text, i, i + Len(sep) - 1) = sep

\* re.search(separator, text) for a literal, non-empty separator.
Contains(text, sep) == \E i \in 1..Len(text) : MatchesAt(text, i, sep)

\* re.split("(sep)", text) with every separator glued to the front of the
\* piece that follows it (keep_separator=True), scanning from position i.
RECURSIVE SplitScan(_, _, _, _, _)
SplitScan(text, sep, i, cur, out) ==
    IF i > Len(text) THEN Append(out, cur)
    ELSE IF MatchesAt(text, i, sep)
           THEN SplitScan(text, sep, i + Len(sep), sep, Append(out, cur))
           ELSE SplitScan(text, sep, i + 1, Append(cur, text[i]), out)

\* _split_text_with_regex: the pieces, without the empty ones; list(text) for
\* the empty separator.
SplitTextWithRegex(text, sep) ==
    IF sep # <<>>
      THEN SelectSeq(SplitScan(text, sep, 1, <<>>, <<>>), LAMBDA s : s # <<>>)
      ELSE [i \in 1..Len(text) |-> <<text[i]>>]

\* str.strip()
RECURSIVE LStrip(_)
LStrip(t) == IF t # <<>> /\ Head(t) \in Whitespace THEN LStrip(Tail(t)) ELSE t
RECURSIVE RStrip(_)
RStrip(t) ==
    IF t # <<>> /\ t[Len(t)] \in Whitespace THEN RStrip(SubSeq(t, 1, Len(t) - 1)) ELSE t
Strip(t) == RStrip(LStrip(t))

\* separator.join(docs)
RECURSIVE Join(_, _)
Join(docs, sep) ==
    IF docs = <<>> THEN <<>>
    ELSE IF Len(docs) = 1 THEN docs[1]
    ELSE docs[1] \o sep \o Join(Tail(docs), sep)

\* TextSplitter._join_docs: the joined, stripped text; nothing when it is empty.
JoinDocs(docs, sep) ==
    LET text == Strip(Join(docs, sep))
    IN  IF text = <<>> THEN <<>> ELSE <<text>>

\* The while loop of _merge_splits: drop pieces from the front of the current
\* chunk until what is left fits the overlap and leaves room for the next piece.
RECURSIVE MergePop(_, _, _, _, _, _)
MergePop(current, total, len, sepLen, size, overlap) ==
    IF \/ total > overlap
       \/ (total + len + (IF Len(current) > 0 THEN sepLen ELSE 0) > size /\ total > 0)
      THEN MergePop(Tail(current),
                    total - (Len(Head(current)) + (IF Len(current) > 1 THEN sepLen ELSE 0)),
                    len, sepLen, size, overlap)
      ELSE [current |-> current, total |-> total]

\* The for loop of _merge_splits.
RECURSIVE MergeLoop(_, _, _, _, _, _, _)
MergeLoop(splits, sep, size, overlap, docs, current, total) ==
    IF splits = <<>> THEN docs \o JoinDocs(current, sep)
    ELSE LET d == Head(splits)
             len == Len(d)
             sepLen == Len(sep)
             full == /\ total + len + (IF Len(current) > 0 THEN sepLen ELSE 0) > size
                     /\ Len(current) > 0
             emitted == IF full THEN docs \o JoinDocs(current, sep) ELSE docs
             popped == IF full THEN MergePop(current, total, len, sepLen, size, overlap)
                               ELSE [current |-> current, total |-> total]
             next == Append(popped.current, d)
         IN  MergeLoop(Tail(splits), sep, size, overlap, emitted, next,
                       popped.total + len + (IF Len(next) > 1 THEN sepLen ELSE 0))

\* TextSplitter._merge_splits
MergeSplits(splits, sep, size, overlap) ==
    MergeLoop(splits, sep, size, overlap, <<>>, <<>>, 0)

\* The first separator of the list that is empty or occurs in the text.
RECURSIVE PickSeparator(_, _, _)
PickSeparator(text, seps, i) ==
    IF i >= Len(seps) THEN Len(seps)
    ELSE IF seps[i] = <<>> \/ Contains(text, seps[i]) THEN i
    ELSE PickSeparator(text, seps, i + 1)

\* A test that takes every piece as small enough.
IsGoodSplitAlways(s, size) == TRUE

\* _split_text: a piece is merged with its neighbours when it is shorter than
\* the chunk size, split further otherwise.
IsGoodSplit(s, size) == Len(s) < size

\* RecursiveCharacterTextSplitter._split_text(text, separators); pieces are
\* merged with the separator "" because the separators are kept in the pieces.
RECURSIVE SplitText(_, _, _, _)
RECURSIVE SplitPieces(_, _, _, _, _, _)
SplitPieces(splits, newSeps, size, overlap, good, final) ==
    LET flushed == IF good # <<>> THEN final \o MergeSplits(good, <<>>, size, overlap)
                                  ELSE final
    IN  IF splits = <<>> THEN flushed
        ELSE LET s == Head(splits)
             IN  IF IsGoodSplit(s, size)
                   THEN SplitPieces(Tail(splits), newSeps, size, overlap, Append(good, s), final)
                   ELSE SplitPieces(Tail(splits), newSeps, size, overlap, <<>>,
                                    flushed \o (IF newSeps = <<>> THEN <<s>>
                                                ELSE SplitText(s, newSeps, size, overlap)))

SplitText(text, seps, size, overlap) ==
    LET i == PickSeparator(text, seps, 1)
    IN  SplitPieces(SplitTextWithRegex(text, seps[i]), SubSeq(seps, i + 1, Len(seps)),
                    size, overlap, <<>>, <<>>)

SplitIdle ==
    /\ spText = <<>>
    /\ spSize = 0
    /\ spOverlap = 0
    /\ spState = "Unused"
    /\ spChunks = <<>>

SplitInit ==
    /\ spText \in Texts
    /\ spSize \in 1..MaxChunkSize
    /\ spOverlap \in 0..MaxOverlap
    /\ spState = "New"
    /\ spChunks = <<>>

\* RecursiveCharacterTextSplitter(chunk_size = ..., chunk_overlap = ...)
SplitterConstruct ==
    /\ spState = "New"
    /\ spState' = IF ConfigOk(spSize, spOverlap) THEN "Ready" ELSE "ValueError"
    /\ UNCHANGED <<spText, spSize, spOverlap, spChunks>>

\* text_splitter.split_documents(...) on one document
SplitDocuments ==
    /\ spState = "Ready"
    /\ spChunks' = SplitText(spText, Separators, spSize, spOverlap)
    /\ spState' = "Done"
    /\ UNCHANGED <<spText, spSize, spOverlap>>

----------------------------------------------------------------------------
\* MarkdownHeaderTextSplitter(headers_to_split_on=[("==", "Section"),
\* ("===", "Sub-Section")]).split_text, followed by
\* RecursiveCharacterTextSplitter.split_documents(section_splits) (cell 22).
\* A document is a sequence of lines (text.split("\n")), a line a sequence of
\* characters.

LineA == <<"=", "=", " ", "A", " ", "=", "=">>
LineB == <<"=", "=", " ", "B", " ", "=", "=">>
LineS == <<"=", "=", "=", " ", "S", " ", "=", "=", "=">>
LineT1 == <<"t", "1">>
LineT2 == <<"t", "2">>
MdLines == {LineA, LineB, LineS, LineT1, LineT2, <<>>}
MdDocuments == UNION {[1..n -> MdLines] : n \in 0..MaxLines}

\* The headers_to_split_on argument, in the order the notebook gives it.
HeadersArg ==
    << [sep |-> <<"=", "=">>, name |-> "Section"],
       [sep |-> <<"=", "=", "=">>, name |-> "Sub-Section"] >>

\* sorted(headers_to_split_on, key=lambda split: len(split[0]), reverse=True):
\* a stable sort by decreasing separator length.
RECURSIVE SortByLenDesc(_)
SortByLenDesc(hs) ==
    IF hs = <<>> THEN <<>>
    ELSE LET rest == SortByLenDesc(Tail(hs))
             h == Head(hs)
             n == Cardinality({i \in 1..Len(rest) : Len(rest[i].sep) > Len(h.sep)})
         IN  SubSeq(rest, 1, n) \o <<h>> \o SubSeq(rest, n + 1, Len(rest))

HeadersToSplitOn == SortByLenDesc(HeadersArg)

\* stripped_line.startswith(sep) and (len(stripped_line) == len(sep) or
\* stripped_line[len(sep)] == " ")
IsHeaderLine(stripped, sep) ==
    /\ MatchesAt(stripped, 1, sep)
    /\ (Len(stripped) = Len(sep) \/ stripped[Len(sep) + 1] = " ")

\* The first entry of the sorted header list the line matches, 0 when none.
HeaderOf(stripped) ==
    LET hits == {i \in 1..Len(HeadersToSplitOn) :
                    IsHeaderLine(stripped, HeadersToSplitOn[i].sep)}
    IN  IF hits = {} THEN 0 ELSE CHOOSE i \in hits : \A j \in hits : i <= j

\* current_header_level = sep.count("#")
HeaderLevel(sep) == Cardinality({i \in 1..Len(sep) : sep[i] = "#"})

\* stripped_line[len(sep):].strip()
HeaderData(stripped, sep) == Strip(SubSeq(stripped, Len(sep) + 1, Len(stripped)))

\* Metadata dictionaries are functions from header names to header data.
MetaPop(meta, name) == [n \in DOMAIN meta \ {name} |-> meta[n]]
MetaSet(meta, name, data) ==
    [n \in DOMAIN meta \cup {name} |-> IF n = name THEN data ELSE meta[n]]

\* Pop the headers of the same or a deeper level from the stack and clear
\* their entries in initial_metadata.
RECURSIVE PopHeaders(_, _, _)
PopHeaders(stack, initial, level) ==
    IF stack # <<>> /\ stack[Len(stack)].level >= level
      THEN PopHeaders(SubSeq(stack, 1, Len(stack) - 1),
                      MetaPop(initial, stack[Len(stack)].name), level)
      ELSE [stack |-> stack, initial |-> initial]

\* The loop state before the first line.  unit and units are history: the
\* number of header lines seen, and for the content lines collected, how many
\* header lines preceded each of them.
MdStart ==
    [out |-> <<>>, content |-> <<>>, units |-> {}, meta |-> <<>>,
     stack |-> <<>>, initial |-> <<>>, unit |-> 0]

\* A flush that keeps only the last line collected.
MdFlushLastLineOnly(st) ==
    IF st.content # <<>>
      THEN Append(st.out, [content |-> st.content[Len(st.content)],
                           metadata |-> st.meta, units |-> st.units])
      ELSE st.out

\* lines_with_metadata.append({"content": "\n".join(current_content),
\* "metadata": current_metadata.copy()}) when current_content is not empty.
MdFlush(st) ==
    IF st.content # <<>>
      THEN Append(st.out, [content |-> Join(st.content, <<"\n">>),
                           metadata |-> st.meta, units |-> st.units])
      ELSE st.out

\* One iteration of the loop over the lines in split_text.
MdLine(st, line) ==
    LET stripped == Strip(line)
        h == HeaderOf(stripped)
    IN  IF h # 0
          THEN LET sep == HeadersToSplitOn[h].sep
                   name == HeadersToSplitOn[h].name
                   level == HeaderLevel(sep)
                   data == HeaderData(stripped, sep)
                   p == PopHeaders(st.stack, st.initial, level)
                   initial == MetaSet(p.initial, name, data)
               IN  [out |-> MdFlush(st), content |-> <<>>, units |-> {},
                    meta |-> initial,
                    stack |-> Append(p.stack,
                                     [level |-> level, name |-> name, data |-> data]),
                    initial |-> initial, unit |-> st.unit + 1]
          ELSE IF stripped # <<>>
                 THEN [st EXCEPT !.content = Append(@, stripped),
                                 !.units = @ \cup {st.unit},
                                 !.meta = st.initial]
                 ELSE [st EXCEPT !.out = MdFlush(st), !.content = <<>>,
                                 !.units = {}, !.meta = st.initial]

RECURSIVE MdLoop(_, _)
MdLoop(st, lines) ==
    IF lines = <<>> THEN MdFlush(st) ELSE MdLoop(MdLine(st, Head(lines)), Tail(lines))

\* aggregate_lines_to_chunks: consecutive entries with equal metadata become
\* one chunk, their contents joined by "  \n".
RECURSIVE AggregateLinesToChunks(_, _)
AggregateLinesToChunks(lines, chunks) ==
    IF lines = <<>> THEN chunks
    ELSE LET l == Head(lines)
             n == Len(chunks)
         IN  IF n > 0 /\ chunks[n].metadata = l.metadata
               THEN AggregateLinesToChunks(Tail(lines),
                       [chunks EXCEPT ![n] =
                           [content |-> @.content \o <<" ", " ", "\n">> \o l.content,
                            metadata |-> @.metadata,
                            units |-> @.units \cup l.units]])
               ELSE AggregateLinesToChunks(Tail(lines), Append(chunks, l))

\* MarkdownHeaderTextSplitter.split_text
MdSplitText(lines) == AggregateLinesToChunks(MdLoop(MdStart, lines), <<>>)

\* TextSplitter.split_documents / create_documents: every document is split
\* on its own and its metadata copied to each of its chunks; section is
\* history, the position of the document the chunk was cut from.
RECURSIVE CreateDocuments(_, _, _, _)
CreateDocuments(docs, i, size, overlap) ==
    IF i > Len(docs) THEN <<>>
    ELSE LET parts == SplitText(docs[i].content, Separators, size, overlap)
         IN  [j \in 1..Len(parts) |->
                 [content |-> parts[j], metadata |-> docs[i].metadata, section |-> i]]
             \o CreateDocuments(docs, i + 1, size, overlap)

MarkdownIdle ==
    /\ mdLines = <<>>
    /\ mdSize = 0
    /\ mdOverlap = 0
    /\ mdState = "Unused"
    /\ mdSections = <<>>
    /\ mdChunks = <<>>

MarkdownInit ==
    /\ mdLines \in MdDocuments
    /\ mdSize \in 1..MaxSectionSize
    /\ mdOverlap \in 0..MaxSectionOverlap
    /\ mdState = "New"
    /\ mdSections = <<>>
    /\ mdChunks = <<>>

\* section_splits = text_splitter.split_text(data[0].page_content)
MdSplitSections ==
    /\ mdState = "New"
    /\ mdSections' = MdSplitText(mdLines)
    /\ mdState' = "Sections"
    /\ UNCHANGED <<mdLines, mdSize, mdOverlap, mdChunks>>

\* all_splits = text_splitter.split_documents(section_splits)
MdSplitDocuments ==
    /\ mdState = "Sections"
    /\ mdChunks' = CreateDocuments(mdSections, 1, mdSize, mdOverlap)
    /\ mdState' = "Done"
    /\ UNCHANGED <<mdLines, mdSize, mdOverlap, mdSections>>

----------------------------------------------------------------------------
\* RetrievalQA.from_chain_type(llm, retriever=svm_retriever) with the default
\* chain_type "stuff" (cell 35) and with chain_type="refine" (cell 45), and
\* qa_chain({"query": question}).  Chunk texts, the question and the context
\* are sequences of characters; prompts are given by the values filled into
\* the prompt template.

SyChunks == {<<"x">>, <<"y", "y">>, <<"z">>}
SyQuestion == <<"q">>
SyAnswers == {"answer 1", "answer 2"}
NoAnswer == "none"

\* Lists of distinct chunks, as a retriever returns them.
SyRetrievals == UNION {{SubSeq(p, 1, n) : n \in 0..Min(MaxDocs, Len(p))} : p \in Perms(SyChunks)}

\* A context that holds the first retrieved chunk only.
StuffContextFirstOnly(docs) == IF docs = <<>> THEN <<>> ELSE docs[1]

\* StuffDocumentsChain._get_inputs: document_separator.join(doc_strings),
\* with the separator "\n\n".
StuffContext(docs) == Join(docs, <<"\n", "\n">>)

StuffPrompt(docs, question) == [context |-> StuffContext(docs), question |-> question]

\* The size of a prompt, as far as it depends on the values filled in.
PromptLen(prompt) == Len(prompt.context) + Len(prompt.question)

\* A refine loop that visits the first document again.
RefineRestAll(docs) == docs

\* RefineDocumentsChain.combine_docs: for doc in docs[1:]
RefineRest(docs) == Tail(docs)

\* The documents handed to the LLM, call by call: docs[0] to the initial
\* chain, then each of docs[1:] to the refine chain.
RefineQueue(docs) == <<Head(docs)>> \o RefineRest(docs)

\* _construct_initial_inputs (no existing answer) / _construct_refine_inputs.
RefinePrompt(doc, question, existing) ==
    [context_str |-> doc, question |-> question, existing_answer |-> existing]

\* Source documents returned in the reverse of the retrieval order.
SourceDocumentsReversed(docs, returnSources) ==
    IF returnSources THEN <<[i \in 1..Len(docs) |-> docs[Len(docs) + 1 - i]]>> ELSE <<>>

\* BaseRetrievalQA._call: with return_source_documents the output carries
\* "source_documents": docs, the list handed to the combine chain.
SourceDocuments(docs, returnSources) == IF returnSources THEN <<docs>> ELSE <<>>

SynthIdle ==
    /\ syType = "none"
    /\ syBudget = 0
    /\ syDocs = <<>>
    /\ syCalls = <<>>
    /\ syAnswers = <<>>
    /\ syState = "Unused"
    /\ syResult = NoAnswer
    /\ syError = ""
    /\ syReturnSources = FALSE
    /\ sySources = <<>>

SynthInit ==
    /\ syType \in {"stuff", "refine"}
    /\ syBudget \in 1..MaxBudget
    /\ syDocs = <<>>
    /\ syCalls = <<>>
    /\ syAnswers = <<>>
    /\ syState = "Idle"
    /\ syResult = NoAnswer
    /\ syError = ""
    /\ syReturnSources \in BOOLEAN
    /\ sySources = <<>>

\* RetrievalQA._get_docs: retriever.get_relevant_documents(question)
SyRetrieve ==
    /\ syState = "Idle"
    /\ syDocs' \in SyRetrievals
    /\ syState' = "Combining"
    /\ UNCHANGED <<syType, syBudget, syCalls, syAnswers, syResult, syError,
                   syReturnSources, sySources>>

\* RetrievalQA._get_docs when the embedding call raises.
SyRetrieveRaises ==
    /\ syState = "Idle"
    /\ syState' = "Failed"
    /\ syError' = "EmbeddingError"
    /\ UNCHANGED <<syType, syBudget, syDocs, syCalls, syAnswers, syResult,
                   syReturnSources, sySources>>

\* StuffDocumentsChain.combine_docs: one llm_chain.predict with all documents.
\* The chain sends the prompt whatever its size; the service rejects a prompt
\* beyond the model's context size, and may fail for other reasons.
SyStuff ==
    /\ syType = "stuff"
    /\ syState = "Combining"
    /\ LET prompt == StuffPrompt(syDocs, SyQuestion)
       IN  /\ syCalls' = <<prompt>>
           /\ \/ /\ PromptLen(prompt) <= syBudget
                 /\ \E a \in SyAnswers :
                       /\ syAnswers' = <<a>>
                       /\ syResult' = a
                 /\ sySources' = SourceDocuments(syDocs, syReturnSources)
                 /\ syState' = "Done"
                 /\ UNCHANGED syError
              \/ /\ syState' = "Failed"
                 /\ syError' = "GenerationError"
                 /\ UNCHANGED <<syAnswers, syResult, sySources>>
    /\ UNCHANGED <<syType, syBudget, syDocs, syReturnSources>>

\* RefineDocumentsChain.combine_docs on no documents: docs[0] raises.
SyRefineEmpty ==
    /\ syType = "refine"
    /\ syState = "Combining"
    /\ syDocs = <<>>
    /\ syState' = "Failed"
    /\ syError' = "IndexError"
    /\ UNCHANGED <<syType, syBudget, syDocs, syCalls, syAnswers, syResult,
                   syReturnSources, sySources>>

\* RefineDocumentsChain.combine_docs: the next predict call, the initial chain
\* on the first document, the refine chain on each later one with the answer
\* so far; the last answer is the result.
SyRefineStep ==
    /\ syType = "refine"
    /\ syState = "Combining"
    /\ syDocs # <<>>
    /\ LET queue == RefineQueue(syDocs)
           i == Len(syCalls) + 1
           existing == IF i = 1 THEN NoAnswer ELSE syAnswers[i - 1]
       IN  /\ syCalls' = Append(syCalls, RefinePrompt(queue[i], SyQuestion, existing))
           /\ \/ \E a \in SyAnswers :
                    /\ syAnswers' = Append(syAnswers, a)
                    /\ IF i = Len(queue)
                         THEN /\ syResult' = a
                              /\ sySources' = SourceDocuments(syDocs, syReturnSources)
                              /\ syState' = "Done"
                         ELSE UNCHANGED <<syResult, sySources, syState>>
                    /\ UNCHANGED syError
              \/ /\ syState' = "Failed"
                 /\ syError' = "GenerationError"
                 /\ UNCHANGED <<syAnswers, syResult, sySources>>
    /\ UNCHANGED <<syType, syBudget, syDocs, syReturnSources>>

----------------------------------------------------------------------------
\* ConversationSummaryMemory(llm=llm) used directly (cell 63).

\* A summarize call that is handed the whole history instead of the new turns.
SummaryNewLinesAll(messages) == messages

\* ConversationSummaryMemory.save_context: self.chat_memory.messages[-2:]
SummaryNewLines(messages) == LastN(messages, 2)

SummaryInit ==
    /\ smMessages = <<>>
    /\ smSummary = <<>>
    /\ smCalls = <<>>
    /\ smPairs = <<>>
    /\ smLoaded = NotLoaded
    /\ smStatus = "none"

SummaryIdle == SummaryInit

\* memory.save_context({"input": i}, {"output": o}): the two messages are
\* stored, then the LLM folds the last two messages into the summary.
SmSaveContext ==
    /\ Len(smPairs) < MaxAppends
    /\ \E i \in UserInputs, o \in AiOutputs :
         LET saved == ChatSaveContext(smMessages, i, o)
             call == [summary |-> smSummary, new_lines |-> SummaryNewLines(saved)]
         IN  /\ smMessages' = saved
             /\ smCalls' = Append(smCalls, call)
             /\ smSummary' = PredictNewSummary(call.new_lines, call.summary)
             /\ smPairs' = Append(smPairs, [input |-> i, output |-> o, ok |-> TRUE])
    /\ smLoaded' = NotLoaded
    /\ smStatus' = "ok"

\* memory.save_context when the summarize call raises: the messages are
\* already stored, the summary keeps its value, the exception reaches the caller.
SmSaveContextFails ==
    /\ Len(smPairs) < MaxAppends
    /\ \E i \in UserInputs, o \in AiOutputs :
         LET saved == ChatSaveContext(smMessages, i, o)
             call == [summary |-> smSummary, new_lines |-> SummaryNewLines(saved)]
         IN  /\ smMessages' = saved
             /\ smCalls' = Append(smCalls, call)
             /\ smPairs' = Append(smPairs, [input |-> i, output |-> o, ok |-> FALSE])
    /\ smLoaded' = NotLoaded
    /\ smStatus' = "error"
    /\ UNCHANGED smSummary

\* memory.load_memory_variables({})
SmLoad ==
    /\ smLoaded = NotLoaded
    /\ smLoaded' = SummaryLoad(smSummary)
    /\ UNCHANGED <<smMessages, smSummary, smCalls, smPairs, smStatus>>

----------------------------------------------------------------------------
\* ConversationBufferMemory: filled by hand (cells 57, 59) and as the memory
\* of an LLMChain (cell 67).

\* A chat history that puts a new message in front.
AddMessageFirst(messages, m) == <<m>> \o messages

\* ChatMessageHistory.add_message: self.messages.append(message)
AddMessage(messages, m) == Append(messages, m)

\* get_buffer_string: one line "Human: ..." or "AI: ..." per message, joined
\* by newlines.
RECURSIVE GetBufferString(_)
GetBufferString(messages) ==
    IF messages = <<>> THEN ""
    ELSE LET m == messages[Len(messages)]
             line == (IF m.type = "human" THEN "Human" ELSE "AI") \o ": " \o m.content
         IN  IF Len(messages) = 1 THEN line
             ELSE GetBufferString(SubSeq(messages, 1, Len(messages) - 1)) \o "\n" \o line

\* ConversationBufferMemory.load_memory_variables: the messages themselves
\* with return_messages=True, their buffer string otherwise.
BufferLoad(messages, returnMessages) ==
    IF returnMessages THEN messages ELSE GetBufferString(messages)

BufferIdle ==
    /\ bfReturnMessages = FALSE
    /\ bfMessages = <<>>
    /\ bfTurns = <<>>
    /\ bfLoaded = <<>>

BufferInit ==
    /\ bfReturnMessages \in BOOLEAN
    /\ bfMessages = <<>>
    /\ bfTurns = <<>>
    /\ bfLoaded = <<>>

\* memory.chat_memory.add_user_message(text)
BfAddUserMessage ==
    /\ Len(bfTurns) < MaxBufferTurns
    /\ \E text \in UserInputs :
         /\ bfMessages' = AddMessage(bfMessages, HumanMessage(text))
         /\ bfTurns' = Append(bfTurns, [role |-> "Human", text |-> text])
    /\ bfLoaded' = <<>>
    /\ UNCHANGED bfReturnMessages

\* memory.chat_memory.add_ai_message(text)
BfAddAiMessage ==
    /\ Len(bfTurns) < MaxBufferTurns
    /\ \E text \in AiOutputs :
         /\ bfMessages' = AddMessage(bfMessages, AIMessage(text))
         /\ bfTurns' = Append(bfTurns, [role |-> "AI", text |-> text])
    /\ bfLoaded' = <<>>
    /\ UNCHANGED bfReturnMessages

\* conversation({"question": q}): after the LLM answered, LLMChain calls
\* memory.save_context, which adds the question and then the answer.
BfSaveContext ==
    /\ Len(bfTurns) + 2 <= MaxBufferTurns
    /\ \E q \in UserInputs, a \in AiOutputs :
         /\ bfMessages' = AddMessage(AddMessage(bfMessages, HumanMessage(q)), AIMessage(a))
         /\ bfTurns' = bfTurns \o <<[role |-> "Human", text |-> q], [role |-> "AI", text |-> a]>>
    /\ bfLoaded' = <<>>
    /\ UNCHANGED bfReturnMessages

\* memory.load_memory_variables({})
BfLoad ==
    /\ bfLoaded = <<>>
    /\ bfLoaded' = <<BufferLoad(bfMessages, bfReturnMessages)>>
    /\ UNCHANGED <<bfReturnMessages, bfMessages, bfTurns>>

StagesIdle ==
    MultiQueryIdle /\ SplitIdle /\ MarkdownIdle /\ SynthIdle /\ SummaryIdle /\ BufferIdle

----------------------------------------------------------------------------
InitWindow == WindowInit /\ SumBufIdle /\ AgentIdle /\ ChatIdle /\ IndexInit /\ StagesIdle
NextWindow ==
    \/ WindowSaveContext /\ UNCHANGED <<sumBufVars, agentVars, chatVars, indexVars, stageVars>>
    \/ WindowLoad /\ UNCHANGED <<sumBufVars, agentVars, chatVars, indexVars, stageVars>>
SpecWindow == InitWindow /\ [][NextWindow]_vars

WindowIdle ==
    /\ wK = 0
    /\ wMessages = <<>>
    /\ wLoaded = NotLoaded
    /\ wPairs = <<>>

InitSumBuf == SumBufInit /\ WindowIdle /\ AgentIdle /\ ChatIdle /\ IndexInit /\ StagesIdle
NextSumBuf ==
    \/ SumBufSaveContext /\ UNCHANGED <<windowVars, agentVars, chatVars, indexVars, stageVars>>
    \/ SumBufSaveContextFails /\ UNCHANGED <<windowVars, agentVars, chatVars, indexVars, stageVars>>
    \/ SumBufLoadMemory /\ UNCHANGED <<windowVars, agentVars, chatVars, indexVars, stageVars>>
SpecSumBuf == InitSumBuf /\ [][NextSumBuf]_vars

InitAgent == AgentInit /\ WindowIdle /\ SumBufIdle /\ ChatIdle /\ IndexInit /\ StagesIdle
\* The steps of a running turn; the call is synchronous and runs to its end.
AgentTurnStep ==
    \/ AgentDecide /\ UNCHANGED <<windowVars, sumBufVars, chatVars, indexVars, stageVars>>
    \/ AgentToolRun /\ UNCHANGED <<windowVars, sumBufVars, chatVars, indexVars, stageVars>>
    \/ AgentToolRaises /\ UNCHANGED <<windowVars, sumBufVars, chatVars, indexVars, stageVars>>
    \/ AgentLimitStop /\ UNCHANGED <<windowVars, sumBufVars, chatVars, indexVars, stageVars>>
    \/ AgentReturn /\ UNCHANGED <<windowVars, sumBufVars, chatVars, indexVars, stageVars>>
NextAgent ==
    \/ AgentStartTurn /\ UNCHANGED <<windowVars, sumBufVars, chatVars, indexVars, stageVars>>
    \/ AgentTurnStep
SpecAgent == InitAgent /\ [][NextAgent]_vars /\ WF_vars(AgentTurnStep)

InitChat == ChatInit /\ IndexFilled /\ WindowIdle /\ SumBufIdle /\ AgentIdle /\ StagesIdle
NextChat ==
    \/ QaStartTurn /\ UNCHANGED <<windowVars, sumBufVars, agentVars, stageVars>>
    \/ QaCondense /\ UNCHANGED <<windowVars, sumBufVars, agentVars, stageVars>>
    \/ QaRetrieve /\ UNCHANGED <<windowVars, sumBufVars, agentVars, stageVars>>
    \/ QaSynthesize /\ UNCHANGED <<windowVars, sumBufVars, agentVars, stageVars>>
    \/ QaSave /\ UNCHANGED <<windowVars, sumBufVars, agentVars, stageVars>>
    \/ QaSaveFails /\ UNCHANGED <<windowVars, sumBufVars, agentVars, stageVars>>
SpecChat == InitChat /\ [][NextChat]_vars

InitIndex == IndexInit /\ ChatIdle /\ WindowIdle /\ SumBufIdle /\ AgentIdle /\ StagesIdle
NextIndex == IndexInsert /\ UNCHANGED <<windowVars, sumBufVars, agentVars, chatVars, stageVars>>
SpecIndex == InitIndex /\ [][NextIndex]_vars

coreVars == <<windowVars, sumBufVars, agentVars, chatVars, indexVars>>
CoreIdle == WindowIdle /\ SumBufIdle /\ AgentIdle /\ ChatIdle /\ IndexInit

InitMultiQuery ==
    /\ MultiQueryInit /\ CoreIdle
    /\ SplitIdle /\ MarkdownIdle /\ SynthIdle /\ SummaryIdle /\ BufferIdle
othersMultiQuery == <<coreVars, splitVars, markdownVars, synthVars, summaryVars, bufferVars>>
NextMultiQuery ==
    \/ MqGenerateQueries /\ UNCHANGED othersMultiQuery
    \/ MqGenerateRaises /\ UNCHANGED othersMultiQuery
    \/ MqRetrieve /\ UNCHANGED othersMultiQuery
    \/ MqRetrieveRaises /\ UNCHANGED othersMultiQuery
SpecMultiQuery == InitMultiQuery /\ [][NextMultiQuery]_vars

InitSplit ==
    /\ SplitInit /\ CoreIdle
    /\ MultiQueryIdle /\ MarkdownIdle /\ SynthIdle /\ SummaryIdle /\ BufferIdle
othersSplit == <<coreVars, multiQueryVars, markdownVars, synthVars, summaryVars, bufferVars>>
NextSplit ==
    \/ SplitterConstruct /\ UNCHANGED othersSplit
    \/ SplitDocuments /\ UNCHANGED othersSplit
SpecSplit == InitSplit /\ [][NextSplit]_vars

InitMarkdown ==
    /\ MarkdownInit /\ CoreIdle
    /\ MultiQueryIdle /\ SplitIdle /\ SynthIdle /\ SummaryIdle /\ BufferIdle
othersMarkdown == <<coreVars, multiQueryVars, splitVars, synthVars, summaryVars, bufferVars>>
NextMarkdown ==
    \/ MdSplitSections /\ UNCHANGED othersMarkdown
    \/ MdSplitDocuments /\ UNCHANGED othersMarkdown
SpecMarkdown == InitMarkdown /\ [][NextMarkdown]_vars

InitSynth ==
    /\ SynthInit /\ CoreIdle
    /\ MultiQueryIdle /\ SplitIdle /\ MarkdownIdle /\ SummaryIdle /\ BufferIdle
othersSynth == <<coreVars, multiQueryVars, splitVars, markdownVars, summaryVars, bufferVars>>
NextSynth ==
    \/ SyRetrieve /\ UNCHANGED othersSynth
    \/ SyRetrieveRaises /\ UNCHANGED othersSynth
    \/ SyStuff /\ UNCHANGED othersSynth
    \/ SyRefineEmpty /\ UNCHANGED othersSynth
    \/ SyRefineStep /\ UNCHANGED othersSynth
SpecSynth == InitSynth /\ [][NextSynth]_vars

InitSummary ==
    /\ SummaryInit /\ CoreIdle
    /\ MultiQueryIdle /\ SplitIdle /\ MarkdownIdle /\ SynthIdle /\ BufferIdle
othersSummary == <<coreVars, multiQueryVars, splitVars, markdownVars, synthVars, bufferVars>>
NextSummary ==
    \/ SmSaveContext /\ UNCHANGED othersSummary
    \/ SmSaveContextFails /\ UNCHANGED othersSummary
    \/ SmLoad /\ UNCHANGED othersSummary
SpecSummary == InitSummary /\ [][NextSummary]_vars

InitBuffer ==
    /\ BufferInit /\ CoreIdle
    /\ MultiQueryIdle /\ SplitIdle /\ MarkdownIdle /\ SynthIdle /\ SummaryIdle
othersBuffer == <<coreVars, multiQueryVars, splitVars, markdownVars, synthVars, summaryVars>>
NextBuffer ==
    \/ BfAddUserMessage /\ UNCHANGED othersBuffer
    \/ BfAddAiMessage /\ UNCHANGED othersBuffer
    \/ BfSaveContext /\ UNCHANGED othersBuffer
    \/ BfLoad /\ UNCHANGED othersBuffer
SpecBuffer == InitBuffer /\ [][NextBuffer]_vars

----------------------------------------------------------------------------
\* The messages of a sequence of (input, output) pairs, in submission order.
RECURSIVE PairMessages(_)
PairMessages(pairs) ==
    IF pairs = <<>> THEN <<>>
    ELSE <<HumanMessage(pairs[1][1]), AIMessage(pairs[1][2])>> \o PairMessages(Tail(pairs))

\* C1: Windowed Buffer(k): after n appends, load() returns exactly the last
\* min(n, k) appended pairs in append order; after k+1 appends the oldest pair
\* is no longer returned.
C1_WindowLoadsLastK ==
    LET n == Len(wPairs)
        m == Min(n, wK)
        expected == PairMessages(SubSeq(wPairs, n - m + 1, n))
    IN /\ WindowBuffer(wMessages, wK) = expected
       /\ wLoaded # NotLoaded => wLoaded = expected
       /\ (n = wK + 1 /\ wLoaded # NotLoaded) =>
             /\ Len(wLoaded) = 2 * wK
             /\ wLoaded = PairMessages(Tail(wPairs))

\* k+1 appends were made to a window of k >= 1 pairs, load() was called, and
\* the discarded pair differs from every pair that was kept.
C1_Witness ==
    /\ wK >= 1
    /\ Len(wPairs) = wK + 1
    /\ wLoaded # NotLoaded
    /\ \A j \in 2..Len(wPairs) : wPairs[j] # wPairs[1]

----------------------------------------------------------------------------
\* C2: Summary-Buffer(token_budget): after every completed append the estimated
\* token size of the trailing buffer is at most token_budget, also when the
\* newly appended pair alone exceeds the budget.
C2_BufferWithinBudget ==
    sbStatus = "ok" => NumTokens(sbTokens, sbMessages) <= sbLimit

\* An append completed whose own pair alone exceeds the budget, after an
\* earlier append.
C2_Witness ==
    /\ sbStatus = "ok"
    /\ Len(sbAppended) >= 4
    /\ NumTokens(sbTokens, LastN(sbAppended, 2)) > sbLimit
    /\ sbLimit >= 1

\* C3: no appended turn-pair is ever lost: after any sequence of appends each
\* turn of each appended pair is in the trailing buffer or has been folded into
\* the summary, never both, so the summary followed by the buffer is the
\* appended sequence.  (Read turn by turn, the unit prune() evicts: C21.)
C3_NoTurnPairLost ==
    sbSummary \o sbMessages = sbAppended

----------------------------------------------------------------------------
AgentEnded == agState \in {"Done", "Failed"}

\* C4 as stated: a turn ends either in Done after a final_answer or in failure
\* (AgentStepLimitExceeded) when the maximum step count is reached, so a turn
\* that is Done got its output from a final_answer.
C4_DoneOnlyByFinalAnswer ==
    agState = "Done" => agOutput.by = "final_answer"

\* C4 amended: for every decision function and every maximum step count a turn
\* eventually ends, in Done or with the error a call raised; it never performs
\* more Deciding steps than the maximum; and a turn that reaches the maximum is
\* not failed: the loop stops and the turn ends in Done with the fixed
\* "Agent stopped ..." output.
C4_TurnTerminates ==
    /\ [](agDecisions <= agMaxIter /\ agIterations <= agMaxIter)
    /\ [](agState = "Done" =>
            \/ agOutput.by = "final_answer" /\ agOutput.text \in AgentAnswers
            \/ /\ agOutput.by = "limit"
               /\ agOutput.text = StoppedOutput
               /\ agIterations = agMaxIter)
    /\ (agState = "Deciding" ~> AgentEnded)

\* A turn used up the maximum of Deciding steps and ended in Done.
C4_Witness ==
    /\ agState = "Done"
    /\ agOutput.by = "limit"
    /\ agDecisions = agMaxIter
    /\ agMaxIter >= 2

\* C5: with a tool catalog of size 1 and a decision function that always
\* answers directly, the turn reaches Done after exactly one Deciding step and
\* performs zero tool invocations.
C5_DirectAnswerOneStep ==
    /\ [](agPolicy = "direct" /\ agState \in {"Answering", "Done"} =>
            /\ agDecisions = 1
            /\ agToolRuns = 0
            /\ agSteps = <<>>
            /\ agOutput.by = "final_answer")
    /\ [](agPolicy = "direct" => agState \notin {"ToolInvocation", "Failed"})
    /\ (agPolicy = "direct" /\ agState = "Deciding" ~> agState = "Done")

\* A turn of the always-answering LLM is Done.
C5_Witness ==
    /\ agPolicy = "direct"
    /\ agState = "Done"
    /\ agDecisions = 1

\* C6 as stated: with a decision function that always invokes the tool the turn
\* never reaches Answering or Done (it fails at the limit instead).
C6_AlwaysToolNeverDone ==
    agPolicy = "tool" => agState \notin {"Answering", "Done"}

\* C6 amended: with a decision function that always invokes the tool, the turn
\* gets no final_answer; exactly when the iteration count reaches the configured
\* limit (not earlier, not later) the loop stops, and the turn goes through
\* Answering to Done with the fixed "Agent stopped ..." output.
C6_AlwaysToolStopsAtLimit ==
    agPolicy = "tool" =>
        /\ agIterations <= agMaxIter
        /\ agDecisions <= agMaxIter
        /\ agOutput.by # "final_answer"
        /\ agState \in {"Answering", "Done"} =>
              /\ agOutput = [text |-> StoppedOutput, by |-> "limit"]
              /\ agIterations = agMaxIter
              /\ agDecisions = agMaxIter
              /\ agToolRuns = agMaxIter

\* A turn of the always-invoking LLM reached the limit and is Done.
C6_Witness ==
    /\ agPolicy = "tool"
    /\ agState = "Done"
    /\ agToolRuns = agMaxIter
    /\ agMaxIter >= 2

\* What a turn adds to the memory, written out: the input, per step the
\* function call and its observation, the output.
TurnMessages ==
    <<[type |-> "human", content |-> agInput]>>
        \o StepMessages(agSteps)
        \o <<[type |-> "ai", content |-> agOutput.text]>>

\* C7 as stated: the memory holds user inputs and final answers only (tool
\* observations go to the working context, never to the Memory Store), and a
\* turn that ends at the step limit leaves it unchanged.
C7_MemoryHoldsPairsOnly ==
    /\ \A j \in 1..Len(agMemory) : agMemory[j].type \in {"human", "ai"}
    /\ (agState = "Done" /\ agOutput.by = "limit") => agMemory = agMemAtStart

\* C7 amended: the Memory Store is written exactly once per turn that reaches
\* Done (after a final_answer or at the iteration limit), in the step from
\* Answering to Done, and is unchanged in every other step and in a turn that
\* a raised error ends; what is appended is the user input, the turn's tool
\* calls and observations, and the output, in that order, after which the
\* oldest messages are dropped while the buffer exceeds the token limit.
C7_MemoryWrittenOnReturn ==
    /\ [][agMemory' # agMemory => agState = "Answering" /\ agState' = "Done"]_vars
    /\ [](agState \in {"Deciding", "ToolInvocation", "Answering", "Failed"} =>
            agMemory = agMemAtStart)
    /\ [](agState = "Done" =>
            LET all == agMemAtStart \o TurnMessages
            IN /\ agMemory = LastN(all, Len(agMemory))
               /\ AgentNumTokens(agTokens, agMemory) <= agTokenLimit
               /\ Len(agMemory) < Len(all) =>
                     AgentNumTokens(agTokens, LastN(all, Len(agMemory) + 1)) > agTokenLimit)

\* A turn that invoked the tool and then got a final_answer is Done, and the
\* tool's observation is in the memory.
C7_Witness ==
    /\ agState = "Done"
    /\ agOutput.by = "final_answer"
    /\ agToolRuns >= 1
    /\ agTurns = 2
    /\ \E j \in 1..Len(agMemory) : agMemory[j] = [type |-> "function", content |-> Documents]

----------------------------------------------------------------------------
\* C8 as stated: any unrecovered error aborts the turn with the Memory Store
\* and the Vector Index equal to their values at the start of the turn.
C8_ErrorLeavesStoresUntouched ==
    qaState = "Failed" =>
        /\ cmMessages = qaAtStart.messages
        /\ cmSummary = qaAtStart.summary
        /\ ixEntries = qaAtStart.index

\* What the chain does guarantee about a failed turn: an error raised by the
\* condensing, retrieval or answering call leaves the memory and the index as
\* they were at the start of the turn; an error raised by the summarize call of
\* the memory update leaves the index and the summary (all that load() returns)
\* as they were, with the turn's two messages already in the chat history.
FailedTurnLeaves ==
    qaState = "Failed" =>
        /\ cmSummary = qaAtStart.summary
        /\ ixEntries = qaAtStart.index
        /\ qaRaised.at # "save_context" =>
              cmMessages = qaAtStart.messages
        /\ qaRaised.at = "save_context" =>
              cmMessages = qaAtStart.messages
                  \o <<[type |-> "human", content |-> qaQuestion],
                       [type |-> "ai", content |-> qaAnswer]>>

\* A second turn failed in its memory update after a first turn succeeded.
FailedInSaveReached ==
    /\ qaState = "Failed"
    /\ qaRaised.at = "save_context"
    /\ qaTurns = 2
    /\ qaAtStart.summary # <<>>

\* C10: an insert whose vector dimension differs from the index's established
\* dimension fails and leaves the index unchanged; every entry's vector
\* dimension equals the index dimension; an insert never removes or changes
\* an existing entry.
C10_InsertChecksDimension ==
    /\ [](\A j \in 1..Len(ixEntries) : Len(ixEntries[j].vector) = ixDim)
    /\ [][ixDim # NoDim /\ Len(ixAttempt') # ixDim =>
              ixResult' = "InvalidDimension" /\ ixEntries' = ixEntries /\ ixDim' = ixDim]_vars
    /\ [][ixEntries = SubSeq(ixEntries', 1, Len(ixEntries))]_vars

\* An insert of a vector of another dimension was refused by a non-empty index.
C10_Witness ==
    /\ ixResult = "InvalidDimension"
    /\ Len(ixEntries) >= 2
    /\ Len(ixAttempt) # ixDim
----------------------------------------------------------------------------
\* Position of the first occurrence of d in s (d occurs in s).
FirstIndex(s, d) == CHOOSE i \in 1..Len(s) : s[i] = d /\ \A j \in 1..(i - 1) : s[j] # d

NoDuplicates(s) == \A i, j \in 1..Len(s) : s[i] = s[j] => i = j

\* The best similarity chunk c got among the queries that returned it.
MaxScoreOf(c) ==
    LET got == {mqScores[i][c] : i \in {j \in 1..Len(mqResults) : c \in Range(mqResults[j])}}
    IN  CHOOSE m \in got : \A x \in got : x <= m

MqReturned == UNION {Range(mqResults[i]) : i \in 1..Len(mqResults)}

\* C11 as stated: the merged result holds no chunk twice, holds every chunk
\* returned for any variant, and is ordered by each chunk's maximum score over
\* the variants, descending.
C11_MergedRankedByMaxScore ==
    mqState = "Done" =>
        /\ NoDuplicates(mqMerged)
        /\ Range(mqMerged) = MqReturned
        /\ \A i, j \in 1..Len(mqMerged) :
              i < j => MaxScoreOf(mqMerged[i]) >= MaxScoreOf(mqMerged[j])

\* C11 amended: one retrieval per generated query; the merged result holds no
\* chunk twice, holds every chunk returned for any generated query, and lists
\* the chunks in the order of their first occurrence in the concatenation of
\* the per-query results (query order, then each query's ranking).
C11_MergedInFirstOccurrenceOrder ==
    mqState = "Done" =>
        /\ Len(mqResults) = Len(mqScores)
        /\ NoDuplicates(mqMerged)
        /\ Range(mqMerged) = MqReturned
        /\ \A i, j \in 1..Len(mqMerged) :
              i < j => FirstIndex(Flatten(mqResults), mqMerged[i])
                         < FirstIndex(Flatten(mqResults), mqMerged[j])

C11_Witness ==
    /\ mqState = "Done"
    /\ Len(mqResults) >= 2
    /\ Range(mqResults[1]) \cap Range(mqResults[2]) # {}
    /\ Range(mqResults[2]) \ Range(mqResults[1]) # {}
    /\ Len(mqMerged) < Len(Flatten(mqResults))

----------------------------------------------------------------------------
\* C12: for every document and every accepted configuration, every chunk the
\* character splitter produces has length at most chunk_size.
C12_ChunksWithinSize ==
    spState = "Done" => \A i \in 1..Len(spChunks) : Len(spChunks[i]) <= spSize

C12_Witness ==
    /\ spState = "Done"
    /\ Len(spText) > spSize
    /\ spOverlap > 0
    /\ Len(spChunks) >= 2
    /\ \E i \in 1..Len(spChunks) : Len(spChunks[i]) = spSize /\ spSize > 1

\* C14 as stated: an overlap greater than or equal to the chunk size fails with
\* a configuration error and produces no chunks; a smaller overlap never fails
\* with a configuration error.
C14_OverlapAtLeastSizeFails ==
    /\ (spState # "New" /\ spOverlap >= spSize) =>
          (spState = "ValueError" /\ spChunks = <<>>)
    /\ spOverlap < spSize => spState # "ValueError"

\* C14 amended: an overlap greater than the chunk size fails with the
\* configuration error when the splitter is constructed and produces no chunks;
\* an overlap less than or equal to the chunk size never fails with it: the
\* constructor accepts it and the split call that follows returns its chunks.
C14_OverlapAboveSizeFails ==
    /\ []((spState # "New" /\ spOverlap > spSize) =>
            (spState = "ValueError" /\ spChunks = <<>>))
    /\ [](spOverlap <= spSize => spState # "ValueError")
    /\ [][/\ spState = "New" /\ spOverlap <= spSize => spState' = "Ready"
          /\ spState = "Ready" => spState' = "Done"]_vars

C14_Witness ==
    /\ spState = "Done"
    /\ spOverlap = spSize
    /\ Len(spChunks) >= 2

----------------------------------------------------------------------------
\* The header lines of the document, and what a header line says.
MdIsHeader(i) == HeaderOf(Strip(mdLines[i])) # 0
MdHeaderName(i) == HeadersToSplitOn[HeaderOf(Strip(mdLines[i]))].name
MdHeaderData(i) ==
    HeaderData(Strip(mdLines[i]), HeadersToSplitOn[HeaderOf(Strip(mdLines[i]))].sep)

\* The structural units of a document are numbered by the header lines that
\* open them (0: the text before the first header).  The lineage of a unit is
\* its own header and, for a sub-section, the section it lies in.
UnitHeader(u) ==
    CHOOSE i \in 1..Len(mdLines) :
        MdIsHeader(i) /\ Cardinality({j \in 1..i : MdIsHeader(j)}) = u
Lineage(u) ==
    IF u = 0 THEN <<>>
    ELSE LET i == UnitHeader(u)
             above == {j \in 1..(i - 1) : MdIsHeader(j) /\ MdHeaderName(j) = "Section"}
         IN  IF MdHeaderName(i) = "Section" \/ above = {}
               THEN MetaSet(<<>>, MdHeaderName(i), MdHeaderData(i))
               ELSE MetaSet(MetaSet(<<>>, "Section",
                                    MdHeaderData(CHOOSE j \in above : \A k \in above : k <= j)),
                            "Sub-Section", MdHeaderData(i))

\* The document is two sections, each a header line and one line of text.
TwoSections ==
    /\ Len(mdLines) = 4
    /\ MdIsHeader(1) /\ MdHeaderName(1) = "Section"
    /\ ~MdIsHeader(2) /\ mdLines[2] # <<>>
    /\ MdIsHeader(3) /\ MdHeaderName(3) = "Section"
    /\ ~MdIsHeader(4) /\ mdLines[4] # <<>>

\* C13 as stated: no chunk holds text of two structural units, every chunk
\* carries the marker lineage of its unit as metadata, no chunk's content holds
\* the marker text, and a document of two marker-delimited sections that each
\* fit the chunk size yields exactly two chunks.
C13_ChunksFollowStructure ==
    mdState = "Done" =>
        /\ \A n \in 1..Len(mdChunks) :
              LET c == mdChunks[n]
                  s == mdSections[c.section]
              IN  /\ c.content = s.content => Cardinality(s.units) <= 1
                  /\ \A u \in s.units : s.units = {u} => c.metadata = Lineage(u)
                  /\ ~Contains(c.content, <<"=", "=">>)
        /\ (/\ TwoSections
            /\ Len(mdLines[2]) <= mdSize
            /\ Len(mdLines[4]) <= mdSize) => Len(mdChunks) = 2

----------------------------------------------------------------------------
\* C15: the refine strategy over n >= 1 retrieved chunks issues exactly n LLM
\* calls, the i-th with the i-th chunk in retriever order, the question and,
\* for i > 1, the answer the previous call returned; on no chunks it fails
\* without any LLM call.
C15_RefineOneCallPerChunk ==
    syType = "refine" =>
        /\ syState = "Done" =>
              /\ Len(syDocs) >= 1
              /\ Len(syCalls) = Len(syDocs)
              /\ Len(syAnswers) = Len(syDocs)
              /\ syResult = syAnswers[Len(syDocs)]
        /\ Len(syCalls) <= Len(syDocs)
        /\ \A i \in 1..Len(syCalls) :
              /\ syCalls[i].context_str = syDocs[i]
              /\ syCalls[i].question = SyQuestion
              /\ syCalls[i].existing_answer = IF i = 1 THEN NoAnswer ELSE syAnswers[i - 1]
        /\ (syState \in {"Done", "Failed"} /\ syError # "EmbeddingError" /\ syDocs = <<>>) =>
              (syState = "Failed" /\ syError = "IndexError" /\ syCalls = <<>>)

C15_Witness ==
    /\ syType = "refine"
    /\ syState = "Done"
    /\ Len(syDocs) = 3
    /\ syAnswers[1] # syAnswers[2]

\* Whether the stuff chain has been run on the retrieved documents.
StuffRan == syType = "stuff" /\ syState \in {"Done", "Failed"} /\ syError # "EmbeddingError"

\* C16 as stated: the stuff strategy issues one LLM call with every chunk and
\* the question when they fit the context budget; when they exceed it the
\* strategy fails with a context-overflow error of its own, no call being
\* issued; no chunk is dropped or truncated.
C16_StuffChecksBudget ==
    StuffRan =>
        IF PromptLen(StuffPrompt(syDocs, SyQuestion)) <= syBudget
          THEN /\ Len(syCalls) = 1
               /\ \A i \in 1..Len(syDocs) : Contains(syCalls[1].context, syDocs[i])
          ELSE /\ syState = "Failed"
               /\ syError = "ContextOverflowError"
               /\ syCalls = <<>>

\* C16 amended: the stuff strategy always issues exactly one LLM call, whose
\* prompt holds every retrieved chunk whole, in retriever order, and the
\* question; it checks no budget itself.  A prompt beyond the model's context
\* size is rejected by the service, and the call fails with that gateway error.
C16_StuffAlwaysOneCall ==
    StuffRan =>
        /\ Len(syCalls) = 1
        /\ syCalls[1].question = SyQuestion
        /\ \A i \in 1..Len(syDocs) : Contains(syCalls[1].context, syDocs[i])
        /\ \A i, j \in 1..Len(syDocs) :
              i < j => \E m, n \in 1..Len(syCalls[1].context) :
                          /\ MatchesAt(syCalls[1].context, m, syDocs[i])
                          /\ MatchesAt(syCalls[1].context, n, syDocs[j])
                          /\ m < n
        /\ PromptLen(syCalls[1]) > syBudget =>
              (syState = "Failed" /\ syError = "GenerationError")

C16_Witness ==
    /\ StuffRan
    /\ Len(syDocs) >= 2
    /\ PromptLen(syCalls[1]) > syBudget
    /\ syState = "Failed"

----------------------------------------------------------------------------
\* The left fold of summarize over the pairs whose save_context returned.
RECURSIVE FoldSummarize(_)
FoldSummarize(pairs) ==
    IF pairs = <<>> THEN <<>>
    ELSE LET p == pairs[Len(pairs)]
             before == FoldSummarize(SubSeq(pairs, 1, Len(pairs) - 1))
         IN  IF p.ok
               THEN PredictNewSummary(<<HumanMessage(p.input), AIMessage(p.output)>>, before)
               ELSE before

RECURSIVE RawTurns(_)
RawTurns(pairs) ==
    IF pairs = <<>> THEN <<>>
    ELSE <<HumanMessage(pairs[1].input), AIMessage(pairs[1].output)>> \o RawTurns(Tail(pairs))

\* C17 as stated: every append issues exactly one summarize call with the
\* previous summary and the new pair, the stored summary is that call's result
\* and no raw turn is retained; load() returns only the summary; after n
\* appends the summary is the left fold of summarize over the n pairs.
C17_SummaryKeepsNoRawTurn ==
    (\A n \in 1..Len(smPairs) : smPairs[n].ok) =>
        /\ Len(smCalls) = Len(smPairs)
        /\ smSummary = FoldSummarize(smPairs)
        /\ smMessages = <<>>
        /\ smLoaded # NotLoaded => smLoaded = smSummary

\* C17 amended: every append issues exactly one summarize call with the
\* previous summary and the new pair; when the call returns, the stored
\* summary is its result, so the summary is the left fold of summarize over
\* the pairs whose append returned; load() returns only the summary; the raw
\* turns of every append stay in the memory's chat history.
C17_SummaryIsFold ==
    /\ Len(smCalls) = Len(smPairs)
    /\ \A n \in 1..Len(smCalls) :
          /\ smCalls[n].summary = FoldSummarize(SubSeq(smPairs, 1, n - 1))
          /\ smCalls[n].new_lines =
                <<HumanMessage(smPairs[n].input), AIMessage(smPairs[n].output)>>
    /\ smSummary = FoldSummarize(smPairs)
    /\ smMessages = RawTurns(smPairs)
    /\ smLoaded # NotLoaded => smLoaded = smSummary

C17_Witness ==
    /\ Len(smPairs) = 3
    /\ \A n \in 1..3 : smPairs[n].ok
    /\ smPairs[1].input # smPairs[2].input
    /\ smLoaded # NotLoaded

\* C18 as stated: when the summarize call of an append fails, the new pair is
\* still represented in the memory's summary state after the append.
C18_FailedPairStaysInSummary ==
    \A n \in 1..Len(smPairs) :
        /\ HumanMessage(smPairs[n].input) \in Range(smSummary)
        /\ AIMessage(smPairs[n].output) \in Range(smSummary)

\* A failed append followed by one that returned.
C18_FailedThenSaved ==
    /\ Len(smPairs) = 2
    /\ ~smPairs[1].ok
    /\ smPairs[2].ok
    /\ HumanMessage(smPairs[1].input) \notin Range(smSummary)

----------------------------------------------------------------------------
\* The message a turn is stored as.
TurnMessage(t) == IF t.role = "Human" THEN HumanMessage(t.text) ELSE AIMessage(t.text)

\* C19: the buffer memory's load() returns every turn ever handed to it,
\* without eviction, in the order of submission.
C19_BufferLoadsEveryTurn ==
    /\ Len(bfMessages) = Len(bfTurns)
    /\ \A n \in 1..Len(bfTurns) : bfMessages[n] = TurnMessage(bfTurns[n])
    /\ bfLoaded # <<>> =>
          bfLoaded[1] = IF bfReturnMessages
                       THEN [n \in 1..Len(bfTurns) |-> TurnMessage(bfTurns[n])]
                       ELSE GetBufferString([n \in 1..Len(bfTurns) |-> TurnMessage(bfTurns[n])])

C19_Witness ==
    /\ Len(bfTurns) = MaxBufferTurns
    /\ bfTurns[1].text # bfTurns[3].text
    /\ bfTurns[1].role = "Human" /\ bfTurns[2].role = "AI"
    /\ bfLoaded # <<>>
    /\ ~bfReturnMessages

----------------------------------------------------------------------------
\* The buffer the last save_context pruned: the buffer before it plus its pair.
SbAdded == sbBefore.messages \o LastN(sbAppended, 2)

\* The turns the last save_context popped off the front of SbAdded.
SbEvicted == SubSeq(SbAdded, 1, Len(SbAdded) - Len(sbMessages))

\* C21 as stated: an append evicts nothing when the estimate of the buffer with
\* the new pair is at most token_budget; otherwise it evicts whole pairs, oldest
\* first, and stops at the first pair boundary where the estimate is at most
\* token_budget; the buffer is a suffix of the appended sequence, the evicted
\* pairs are folded in append order and load() returns summary, then buffer.
C21_EvictsWholePairs ==
    sbStatus # "none" =>
        /\ sbMessages = LastN(SbAdded, Len(sbMessages))
        /\ Len(SbEvicted) % 2 = 0
        /\ NumTokens(sbTokens, SbAdded) <= sbLimit => sbMessages = SbAdded
        /\ NumTokens(sbTokens, sbMessages) <= sbLimit
        /\ Len(SbEvicted) >= 2 =>
               NumTokens(sbTokens, LastN(SbAdded, Len(sbMessages) + 2)) > sbLimit

\* C21 amended: an append evicts nothing when the estimate of the buffer with
\* the new pair is at most token_budget (also when equal); otherwise it evicts
\* single turns, oldest first, and stops at the first turn where the estimate
\* is at most token_budget, so a pair can be split; the buffer is always a
\* contiguous suffix of the appended turns; when the summarize call succeeds
\* the evicted turns are folded into the summary in append order, and when it
\* raises they are folded nowhere and the summary stays as it was; load()
\* returns the summary (when there is one) followed by the buffer.
C21_EvictionExact ==
    /\ sbStatus # "none" =>
           /\ sbMessages = LastN(SbAdded, Len(sbMessages))
           /\ NumTokens(sbTokens, SbAdded) <= sbLimit =>
                  sbMessages = SbAdded /\ sbSummary = sbBefore.summary
           /\ NumTokens(sbTokens, sbMessages) <= sbLimit
           /\ SbEvicted # <<>> =>
                  NumTokens(sbTokens, LastN(SbAdded, Len(sbMessages) + 1)) > sbLimit
           /\ sbStatus = "ok" => sbSummary = sbBefore.summary \o SbEvicted
           /\ sbStatus = "error" => sbSummary = sbBefore.summary
    /\ sbMessages = LastN(sbAppended, Len(sbMessages))
    /\ sbDropped = <<>> =>
           sbSummary = SubSeq(sbAppended, 1, Len(sbAppended) - Len(sbMessages))
    /\ sbLoaded # <<>> =>
           LET loaded == sbLoaded[1]
               n == Len(loaded) - Len(sbMessages)
           IN /\ n = (IF sbSummary = <<>> THEN 0 ELSE 1)
              /\ LastN(loaded, Len(sbMessages)) = sbMessages
              /\ n = 1 => loaded[1].type = "system" /\ loaded[1].content = sbSummary

\* A completed append stopped evicting in the middle of a pair with the buffer
\* exactly at the limit, and the memory was loaded afterwards.
C21_Witness ==
    /\ sbStatus = "ok"
    /\ sbLoaded # <<>>
    /\ sbSummary # <<>>
    /\ sbDropped = <<>>
    /\ Len(sbMessages) % 2 = 1
    /\ NumTokens(sbTokens, sbMessages) = sbLimit
    /\ Len(sbAppended) >= 4

\* C22: when an append evicts several turns and the summarize call fails, the
\* summary and the trailing buffer afterwards equal their values before the
\* append: nothing was removed from the buffer without being folded.
C22_FailedAppendChangesNothing ==
    sbStatus = "error" =>
        /\ sbMessages = sbBefore.messages
        /\ sbSummary = sbBefore.summary
        /\ sbDropped = <<>>

\* What the code does instead: the failed append has popped its turns off the
\* buffer, the summary is the one from before, the popped turns are in neither.
C22_FailedAppendPopsUnfolded ==
    sbStatus = "error" =>
        /\ sbSummary = sbBefore.summary
        /\ sbMessages = LastN(SbAdded, Len(sbMessages))
        /\ SbEvicted # <<>>
        /\ LastN(sbDropped, Len(SbEvicted)) = SbEvicted

\* A failed append that had evicted several turns, some of them from the
\* buffer of before the append.
C22_SeveralPoppedReached ==
    /\ sbStatus = "error"
    /\ Len(SbEvicted) >= 2
    /\ sbBefore.messages # <<>>

----------------------------------------------------------------------------
\* The transitions C25 lists, with the start of a turn.
ListedTransitions ==
    {<<"Idle", "Deciding">>, <<"Done", "Deciding">>, <<"Failed", "Deciding">>,
     <<"Deciding", "ToolInvocation">>, <<"ToolInvocation", "Deciding">>,
     <<"Deciding", "Answering">>, <<"Answering", "Done">>}

\* The exits a raising LLM or tool call takes.
ErrorTransitions == {<<"Deciding", "Failed">>, <<"ToolInvocation", "Failed">>}

\* C25 as stated: a turn starts in Deciding, and the only transitions are
\* Deciding -> ToolInvocation, ToolInvocation -> Deciding, Deciding -> Answering
\* and Answering -> Done; a Deciding step emits exactly one Agent Action.
C25_OnlyListedTransitions ==
    [][/\ agState' # agState => <<agState, agState'>> \in ListedTransitions
       /\ agState = "Deciding" /\ agState' # agState =>
              /\ agDecisions' = agDecisions + 1
              /\ agState' \in {"ToolInvocation", "Answering"}]_vars

\* C25 amended: a turn starts in Deciding; a Deciding step whose LLM call
\* returns emits exactly one Agent Action (invoke_tool: to ToolInvocation,
\* final_answer: to Answering); the transitions are the four listed ones, plus
\* Deciding -> Failed and ToolInvocation -> Failed when the LLM or the tool
\* raises, and Deciding -> Answering is also taken, with no action emitted,
\* when the iteration limit is reached; each completed ToolInvocation appends
\* exactly one observation (for a name outside the catalog, the invalid-tool
\* message), so the observations always number the completed tool invocations.
C25_StateMachineShape ==
    /\ [][/\ agState' # agState =>
               <<agState, agState'>> \in ListedTransitions \cup ErrorTransitions
          /\ agTurns' # agTurns =>
               agState' = "Deciding" /\ agSteps' = <<>> /\ agToolRuns' = 0
          /\ agState = "Deciding" /\ agState' = "ToolInvocation" =>
               /\ agDecisions' = agDecisions + 1
               /\ agPending' \in ToolNames
               /\ agOutput' = agOutput
          /\ agState = "Deciding" /\ agState' = "Answering" =>
               \/ /\ agDecisions' = agDecisions + 1
                  /\ agOutput'.by = "final_answer"
               \/ /\ agDecisions' = agDecisions
                  /\ agOutput'.by = "limit"
                  /\ agIterations = agMaxIter
          /\ agState = "ToolInvocation" /\ agState' = "Deciding" =>
               /\ Len(agSteps') = Len(agSteps) + 1
               /\ agSteps'[Len(agSteps')][1] = agPending
               /\ SubSeq(agSteps', 1, Len(agSteps)) = agSteps
               /\ agToolRuns' = agToolRuns + 1
          /\ (~(agState = "ToolInvocation" /\ agState' = "Deciding")
               /\ agTurns' = agTurns) => agSteps' = agSteps]_vars
    /\ [](Len(agSteps) = agToolRuns)

\* A turn went through every listed transition: a tool run, then a final
\* answer, then Done; its tool invocation named a tool outside the catalog.
C25_Witness ==
    /\ agState = "Done"
    /\ agOutput.by = "final_answer"
    /\ agToolRuns = 1
    /\ Len(agSteps) = 1
    /\ agSteps[1][1] # ToolName

----------------------------------------------------------------------------
\* The chunk sequence the synthesizer consumed, read off the prompts it sent:
\* for refine the context_str of each call in order; for stuff the chunks whose
\* join is the context of the one call.
SyConsumed ==
    IF syType = "refine"
    THEN {[i \in 1..Len(syCalls) |-> syCalls[i].context_str]}
    ELSE {d \in SyRetrievals : syCalls # <<>> /\ StuffContext(d) = syCalls[1].context}

\* C26: when return_source_documents is requested, for the stuff and for the
\* refine strategy the returned source sequence is the chunk sequence the
\* synthesizer consumed: same elements, same (retriever's) order, unmodified
\* content; without the request the output has no source sequence, and a
\* failed call returns none.
C26_SourcesAreConsumedChunks ==
    /\ syState = "Done" /\ syReturnSources =>
           /\ sySources # <<>>
           /\ sySources[1] = syDocs
           /\ SyConsumed = {sySources[1]}
    /\ syState = "Done" /\ ~syReturnSources => sySources = <<>>
    /\ syState # "Done" => sySources = <<>>

\* A refine call over three chunks, not in sorted order, returned its sources.
C26_Witness ==
    /\ syState = "Done"
    /\ syType = "refine"
    /\ syReturnSources
    /\ sySources # <<>>
    /\ Len(sySources[1]) = 3
    /\ sySources[1][1] = <<"z">>

----------------------------------------------------------------------------
\* A text without its whitespace characters.
RemoveWs(t) == SelectSeq(t, LAMBDA c : c \notin Whitespace)

\* The document's content with the marker (header) lines removed.
MdBody == Join(SelectSeq(mdLines, LAMBDA l : HeaderOf(Strip(l)) = 0), <<"\n">>)

\* The texts obtained by concatenating the chunks in order after removing from
\* each chunk a prefix of at most overlap characters that repeats the end of
\* the previous chunk (prev).
RECURSIVE Reconstructions(_, _, _)
Reconstructions(chunks, prev, overlap) ==
    IF chunks = <<>> THEN {<<>>}
    ELSE LET c == Head(chunks)
             cuts == {k \in 0..Min(overlap, Min(Len(c), Len(prev))) :
                         SubSeq(c, 1, k) = LastN(prev, k)}
         IN  {SubSeq(c, k + 1, Len(c)) \o r :
                 k \in cuts, r \in Reconstructions(Tail(chunks), c, overlap)}

MdChunkTexts == [j \in 1..Len(mdChunks) |-> mdChunks[j].content]

\* C27 as stated: concatenating the chunks' texts in order, each without the
\* overlap prefix it repeats from the previous chunk, yields the document's
\* content with the marker lines removed.
C27_ChunksReconstructContent ==
    mdState = "Done" => MdBody \in Reconstructions(MdChunkTexts, <<>>, mdOverlap)

\* C27 amended: the reconstruction holds up to whitespace: the characters of
\* the concatenation other than blanks and line breaks are those of the
\* document's non-marker lines, none lost, none duplicated, in order.
C27_ReconstructsUpToWhitespace ==
    mdState = "Done" =>
        RemoveWs(MdBody) \in
            Reconstructions([j \in 1..Len(mdChunks) |-> RemoveWs(mdChunks[j].content)],
                            <<>>, mdOverlap)

\* A document with a marker line was cut into chunks of which one repeats the
\* end of the chunk before it, and whitespace of the document was dropped.
C27_Witness ==
    /\ mdState = "Done"
    /\ mdOverlap = 1
    /\ \E i \in 1..Len(mdLines) : HeaderOf(Strip(mdLines[i])) # 0
    /\ Len(mdChunks) >= 3
    /\ RemoveWs(MdBody) \notin
           Reconstructions([j \in 1..Len(mdChunks) |-> RemoveWs(mdChunks[j].content)],
                           <<>>, 0)
    /\ MdBody \notin Reconstructions(MdChunkTexts, <<>>, mdOverlap)

============================================================================
